---- MODULE Spec2Model ----
(***************************************************************************)
(* Model of the schema-adaptive data-access shim of the Radar Misa client  *)
(* (the two radar pages and the two smoke scripts) and of the operations   *)
(* built on it.  The remote store is the environment: it answers each      *)
(* request either by accepting it or with an error whose text the client   *)
(* classifies by substring and pattern matching.                           *)
(***************************************************************************)
EXTENDS Integers, Sequences, FiniteSets, TLC

(***************************************************************************)
(* Error texts.  A text is a sequence of tokens <<kind, text>>: a plain    *)
(* word ("w"), a double-quoted name ("dq") or a single-quoted name ("sq"). *)
(* An error is a record [message, details] as the query layer returns it.  *)
(***************************************************************************)
W(s) == <<"w", s>>
DQ(s) == <<"dq", s>>
SQ(s) == <<"sq", s>>

Words(ss) == [i \in 1..Len(ss) |-> W(ss[i])]

Err(m) == [message |-> m, details |-> <<>>]
NoError == [message |-> <<>>, details |-> <<>>]

\* column "c" does not exist
MsgColumnMissing(c) == Err(<<W("column"), DQ(c)>> \o Words(<<"does", "not", "exist">>))
\* column "c" of relation "t" does not exist
MsgColumnOfRelation(c, t) ==
  Err(<<W("column"), DQ(c), W("of"), W("relation"), DQ(t)>> \o Words(<<"does", "not", "exist">>))
\* Could not find the 'c' column of 't' in the schema cache
MsgSchemaCacheColumn(c, t) ==
  Err(Words(<<"Could", "not", "find", "the">>) \o <<SQ(c), W("column"), W("of"), SQ(t)>>
      \o Words(<<"in", "the", "schema", "cache">>))
\* relation "t" does not exist
MsgRelationMissing(t) == Err(<<W("relation"), DQ(t)>> \o Words(<<"does", "not", "exist">>))
\* Could not find the table 't' in the schema cache
MsgSchemaCacheTable(t) ==
  Err(Words(<<"Could", "not", "find", "the", "table">>) \o <<SQ(t)>>
      \o Words(<<"in", "the", "schema", "cache">>))
\* new row violates row-level security policy for table "t"
MsgRls(t) ==
  Err(Words(<<"new", "row", "violates", "row-level", "security", "policy", "for", "table">>)
      \o <<DQ(t)>>)
\* permission denied for table t
MsgPermissionDenied(t) == Err(Words(<<"permission", "denied", "for", "table", t>>))
\* invalid input value for enum checkin_status: "v"
MsgEnum(v) ==
  Err(Words(<<"invalid", "input", "value", "for", "enum", "checkin_status:">>) \o <<DQ(v)>>)
\* new row for relation "t" violates check constraint "status_check"
MsgCheckConstraint(t) ==
  Err(Words(<<"new", "row", "for", "relation">>) \o <<DQ(t)>>
      \o Words(<<"violates", "check", "constraint">>) \o <<DQ("status_check")>>)
\* duplicate key value violates unique constraint "unique_row"
MsgDuplicate ==
  Err(Words(<<"duplicate", "key", "value", "violates", "unique", "constraint">>)
      \o <<DQ("unique_row")>>)
\* insert or update on table "t" violates foreign key constraint "fkey";
\* details: Key is not present in table "radar_events".
MsgForeignKey(t) ==
  [message |-> Words(<<"insert", "or", "update", "on", "table">>) \o <<DQ(t)>>
               \o Words(<<"violates", "foreign", "key", "constraint">>) \o <<DQ("fkey")>>,
   details |-> Words(<<"Key", "is", "not", "present", "in", "table">>) \o <<DQ("radar_events")>>]
\* Could not find the function public.f in the schema cache
MsgFunctionCache(f) ==
  Err(Words(<<"Could", "not", "find", "the", "function", f, "in", "the", "schema", "cache">>))
\* function f does not exist
MsgFunctionMissing(f) == Err(Words(<<"function", f, "does", "not", "exist">>))
\* Not authenticated
MsgNotAuthenticated == Err(Words(<<"Not", "authenticated">>))
\* column reference "c" is ambiguous
MsgAmbiguous(c) == Err(<<W("column"), W("reference"), DQ(c), W("is"), W("ambiguous")>>)
\* Kuota penuh (raised by join_radar_event)
MsgQuotaFull == Err(Words(<<"Kuota", "penuh">>))

\* String.prototype.toLowerCase on the words that occur in the texts above.
LowerText(s) ==
  CASE s = "Could" -> "could"
    [] s = "Not" -> "not"
    [] s = "Key" -> "key"
    [] s = "Kuota" -> "kuota"
    [] s = "Gagal" -> "gagal"
    [] s = "ARCHIVED" -> "archived"
    [] s = "FINISHED" -> "finished"
    [] OTHER -> s

toLowerCase(m) == [i \in 1..Len(m) |-> <<m[i][1], LowerText(m[i][2])>>]

\* String.prototype.includes for a phrase of words: a one-word phrase also
\* matches inside a quoted name, a longer one only over adjacent plain words.
includes(m, phrase) ==
  \E i \in 1..(Len(m) - Len(phrase) + 1) :
    \A j \in 1..Len(phrase) :
      /\ m[i + j - 1][2] = phrase[j]
      /\ (Len(phrase) = 1 \/ m[i + j - 1][1] = "w")

(***************************************************************************)
(* Error classification of the two smoke scripts (the same functions in    *)
(* both): matched on message + ' ' + details, lower-cased.                 *)
(***************************************************************************)
normalizeError(error) ==
  IF error = NoError THEN <<>>
  ELSE toLowerCase(error.message \o error.details)

Script_isMissingColumnError(error) ==
  LET msg == normalizeError(error) IN
    \/ includes(msg, <<"42703">>)
    \/ (includes(msg, <<"column">>) /\ includes(msg, <<"does", "not", "exist">>))
    \/ (includes(msg, <<"could", "not", "find">>) /\ includes(msg, <<"column">>))

\* Variant: only the SQLSTATE is matched, not the text.
Script_isMissingRelationError_codeOnly(error) ==
  includes(normalizeError(error), <<"42p01">>)

Script_isMissingRelationError(error) ==
  LET msg == normalizeError(error) IN
    \/ includes(msg, <<"42p01">>)
    \/ (includes(msg, <<"relation">>) /\ includes(msg, <<"does", "not", "exist">>))
    \/ (includes(msg, <<"table">>) /\ includes(msg, <<"does", "not", "exist">>))
    \/ includes(msg, <<"could", "not", "find", "the", "table">>)

\* Variant: only the SQLSTATE is matched, not the text.
Script_isPermissionError_codeOnly(error) ==
  includes(normalizeError(error), <<"42501">>)

Script_isPermissionError(error) ==
  LET msg == normalizeError(error) IN
    \/ includes(msg, <<"42501">>)
    \/ includes(msg, <<"permission", "denied">>)
    \/ includes(msg, <<"row-level", "security">>)
    \/ includes(msg, <<"not", "authenticated">>)

\* Variant: a check-constraint violation is not matched.
Script_isEnumConstraintError_enumOnly(error) ==
  includes(normalizeError(error), <<"invalid", "input", "value", "for", "enum">>)

Script_isEnumConstraintError(error) ==
  LET msg == normalizeError(error) IN
    \/ includes(msg, <<"invalid", "input", "value", "for", "enum">>)
    \/ includes(msg, <<"check", "constraint">>)

Script_isForeignKeyError(error) ==
  LET msg == normalizeError(error) IN
    includes(msg, <<"23503">>) \/ includes(msg, <<"foreign", "key">>)

(***************************************************************************)
(* extractMissingColumnName (the same three patterns in all four files),   *)
(* matched case-insensitively on the raw message.  NoColumn is null.       *)
(***************************************************************************)
NoColumn == ""

FirstMatch(S) == CHOOSE i \in S : \A j \in S : i <= j

\* Variant: only the double-quoted pattern is tried.
extractMissingColumnName_quotedOnly(message) ==
  LET low == toLowerCase(message)
      quoted == {i \in 1..(Len(message) - 1) :
                   low[i] = W("column") /\ message[i + 1][1] = "dq"}
  IN  IF quoted # {} THEN message[FirstMatch(quoted) + 1][2] ELSE NoColumn

extractMissingColumnName(message) ==
  LET low == toLowerCase(message)
      quoted(kind) == {i \in 1..(Len(message) - 1) :
                         low[i] = W("column") /\ message[i + 1][1] = kind}
      cache == {i \in 1..(Len(message) - 5) :
                  /\ \A j \in 1..4 : low[i + j - 1] = W(<<"could", "not", "find", "the">>[j])
                  /\ message[i + 4][1] \in {"sq", "dq"}
                  /\ low[i + 5] = W("column")}
  IN  IF quoted("dq") # {} THEN message[FirstMatch(quoted("dq")) + 1][2]
      ELSE IF quoted("sq") # {} THEN message[FirstMatch(quoted("sq")) + 1][2]
      ELSE IF cache # {} THEN message[FirstMatch(cache) + 4][2]
      ELSE NoColumn

(***************************************************************************)
(* Error classification of the two pages (the same functions in the list   *)
(* page and the detail page): matched on the lower-cased message.          *)
(***************************************************************************)
Page_isMissingColumnError(message) ==
  LET lower == toLowerCase(message) IN
    \/ includes(lower, <<"42703">>)
    \/ includes(lower, <<"does", "not", "exist">>)
    \/ (includes(lower, <<"could", "not", "find">>) /\ includes(lower, <<"column">>))

Page_isMissingRelationError(message) ==
  LET lower == toLowerCase(message) IN
    \/ includes(lower, <<"42p01">>)
    \/ (includes(lower, <<"relation">>) /\ includes(lower, <<"does", "not", "exist">>))
    \/ (includes(lower, <<"table">>) /\ includes(lower, <<"does", "not", "exist">>))
    \/ includes(lower, <<"could", "not", "find", "the", "table">>)
    \/ (includes(lower, <<"schema", "cache">>)
        /\ (includes(lower, <<"table">>) \/ includes(lower, <<"relation">>)))

\* Variant: only the SQLSTATE is matched, not the text.
Page_isDuplicateError_codeOnly(message) ==
  includes(toLowerCase(message), <<"23505">>)

Page_isDuplicateError(message) ==
  LET lower == toLowerCase(message) IN
    includes(lower, <<"23505">>) \/ includes(lower, <<"duplicate", "key">>)

Page_isForeignKeyError(message) ==
  LET lower == toLowerCase(message) IN
    includes(lower, <<"23503">>) \/ includes(lower, <<"foreign", "key", "constraint">>)

Page_isPermissionError(message) ==
  LET lower == toLowerCase(message) IN
    \/ includes(lower, <<"42501">>)
    \/ includes(lower, <<"permission", "denied">>)
    \/ includes(lower, <<"row-level", "security">>)

Page_isFunctionMissingError(message) ==
  LET lower == toLowerCase(message) IN
    \/ includes(lower, <<"could", "not", "find", "the", "function">>)
    \/ includes(lower, <<"does", "not", "exist">>)

Page_isNotAuthenticatedError(message) ==
  includes(toLowerCase(message), <<"not", "authenticated">>)

List_isAmbiguousReferenceError(message) ==
  LET lower == toLowerCase(message) IN
    includes(lower, <<"42702">>) \/ includes(lower, <<"is", "ambiguous">>)

List_shouldFallbackToFinishedStatus(message) ==
  LET lower == toLowerCase(message) IN
    /\ includes(lower, <<"archived">>)
    /\ \/ includes(lower, <<"invalid", "input", "value">>)
       \/ includes(lower, <<"enum">>)
       \/ includes(lower, <<"check", "constraint">>)

(***************************************************************************)
(* Payloads.  A payload is a function from column names to values; the     *)
(* working copy is the payload with keys deleted and values replaced.      *)
(***************************************************************************)
MaxKeys == 3

\* The columns of the personal-invite row, the widest payload of the client.
InviteColumns ==
  <<"inviter_id", "invitee_id", "radar_id", "source", "status", "note", "title",
    "message", "church_id", "church_name", "country_id", "diocese_id", "event_time",
    "event_starts_at_utc", "mass_date", "mass_time", "expires_at">>

InviteValue(k) == IF k = "status" THEN "PENDING" ELSE "value of " \o k

InvitePayload(n) ==
  [k \in {InviteColumns[i] : i \in 1..n} |-> InviteValue(k)]

\* The payloads of up to MaxKeys columns, and the whole invite row.
SmallPayloads == {InvitePayload(n) : n \in 1..MaxKeys}
WidePayload == InvitePayload(Len(InviteColumns))

ArchivePayload ==
  [k \in {"status", "archived_at", "updated_at"} |->
     IF k = "status" THEN "ARCHIVED" ELSE "nowIso"]

AcceptInvitePayload ==
  [k \in {"status", "responded_at", "updated_at"} |->
     IF k = "status" THEN "ACCEPTED" ELSE "nowIso"]

LeavePayload ==
  [k \in {"status", "left_at", "updated_at"} |->
     IF k = "status" THEN "LEFT" ELSE "nowIso"]

\* delete working[column]
Delete(working, column) == [k \in (DOMAIN working) \ {column} |-> working[k]]

\* column in working
In(column, working) == column \in DOMAIN working

\* working.status === value
StatusIs(working, value) == In("status", working) /\ working["status"] = value

(***************************************************************************)
(* Results.  One record shape for every shim; a field a function does not  *)
(* return is FALSE (undefined), NoError (no error) or NoData (null).       *)
(***************************************************************************)
NoData == "null"
NoResult == [shape |-> "pending"]

\* A script's result object: { ok, missing?, permission?, skipped?, error?, data? }.
ScriptResult(ok, error, data) ==
  [shape |-> "script", ok |-> ok, missing |-> FALSE, permission |-> FALSE,
   skipped |-> FALSE, duplicate |-> FALSE, error |-> error, data |-> data]

\* A page's result object: { data?, error, duplicate? }; it has no ok field.
PageResult(error, data) ==
  [shape |-> "page", ok |-> FALSE, missing |-> FALSE, permission |-> FALSE,
   skipped |-> FALSE, duplicate |-> FALSE, error |-> error, data |-> data]

\* A function that returns nothing (return;).
Void ==
  [shape |-> "void", ok |-> FALSE, missing |-> FALSE, permission |-> FALSE,
   skipped |-> FALSE, duplicate |-> FALSE, error |-> NoError, data |-> NoData]

\* throw new Error(message)
Thrown(error) ==
  [shape |-> "thrown", ok |-> FALSE, missing |-> FALSE, permission |-> FALSE,
   skipped |-> FALSE, duplicate |-> FALSE, error |-> error, data |-> NoData]

\* How a caller reads success off a result: result.ok in the scripts,
\* !result.error in the pages, a normal return for a void function.
Succeeded(r) ==
  CASE r.shape = "script" -> r.ok
    [] r.shape = "page" -> r.error = NoError
    [] r.shape = "void" -> TRUE
    [] OTHER -> FALSE

\* What one pass of a retry loop decides: to return (done) or to go round
\* again with the new working copy.
Done(result) == [done |-> TRUE, result |-> result, working |-> <<>>]
Continue(working) == [done |-> FALSE, result |-> NoResult, working |-> working]

(***************************************************************************)
(* The retry loops of the two smoke scripts: src/unnamed/part_000 (radar   *)
(* flow, ceiling 10) and scripts/smoke-radar-invite-two-users.mjs          *)
(* (two-user invite, ceiling 12).  Each _body is one pass of the loop on   *)
(* the response res to the request just sent.                              *)
(***************************************************************************)
Flow_Ceiling == 10
Inv_Ceiling == 12

\* Strip the column the error names, when it names one of the working copy.
Script_stripMissingColumn(working, res) ==
  LET missingColumn == extractMissingColumnName(res.error.message) IN
    IF /\ Script_isMissingColumnError(res.error)
       /\ missingColumn # NoColumn
       /\ In(missingColumn, working)
    THEN Continue(Delete(working, missingColumn))
    ELSE Done(ScriptResult(FALSE, res.error, NoData))

Script_insertWithColumnFallback_body(working, res) ==
  IF res.error = NoError THEN Done(ScriptResult(TRUE, NoError, res.data))
  ELSE IF Script_isMissingRelationError(res.error)
    THEN Done([ScriptResult(FALSE, res.error, NoData) EXCEPT !.missing = TRUE])
  ELSE IF Script_isPermissionError(res.error)
    THEN Done([ScriptResult(FALSE, res.error, NoData) EXCEPT !.permission = TRUE])
  ELSE Script_stripMissingColumn(working, res)

Script_insertExhausted(table) ==
  ScriptResult(FALSE,
    Err(Words(<<"Gagal", "insert", table, "setelah", "beberapa", "percobaan.">>)), NoData)

Flow_archiveCheckInsByUser_body(working, res) ==
  IF res.error = NoError THEN Done(ScriptResult(TRUE, NoError, NoData))
  ELSE IF Script_isMissingRelationError(res.error)
    THEN Done([ScriptResult(TRUE, NoError, NoData) EXCEPT !.skipped = TRUE])
  ELSE IF Script_isPermissionError(res.error)
    THEN Done([ScriptResult(FALSE, res.error, NoData) EXCEPT !.permission = TRUE])
  ELSE IF StatusIs(working, "ARCHIVED") /\ Script_isEnumConstraintError(res.error)
    THEN Continue([working EXCEPT !["status"] = "FINISHED"])
  ELSE Script_stripMissingColumn(working, res)

Flow_archiveExhausted(table) ==
  ScriptResult(FALSE, Err(Words(<<"Gagal", "mengarsipkan", table>>)), NoData)

Flow_checkOutById_body(working, res) ==
  IF res.error = NoError THEN Done(ScriptResult(TRUE, NoError, NoData))
  ELSE IF Script_isPermissionError(res.error)
    THEN Done([ScriptResult(FALSE, res.error, NoData) EXCEPT !.permission = TRUE])
  ELSE IF StatusIs(working, "ARCHIVED") /\ Script_isEnumConstraintError(res.error)
    THEN Continue([working EXCEPT !["status"] = "FINISHED"])
  ELSE Script_stripMissingColumn(working, res)

Flow_checkOutExhausted(table) ==
  ScriptResult(FALSE, Err(Words(<<"Gagal", "check-out", "pada", table>>)), NoData)

Inv_updateWithColumnFallback_body(working, res) ==
  IF res.error = NoError THEN Done(ScriptResult(TRUE, NoError, NoData))
  ELSE IF Script_isMissingRelationError(res.error)
    THEN Done([ScriptResult(FALSE, res.error, NoData) EXCEPT !.missing = TRUE])
  ELSE IF Script_isPermissionError(res.error)
    THEN Done([ScriptResult(FALSE, res.error, NoData) EXCEPT !.permission = TRUE])
  ELSE IF StatusIs(working, "ARCHIVED") /\ Script_isEnumConstraintError(res.error)
    THEN Continue([working EXCEPT !["status"] = "FINISHED"])
  ELSE Script_stripMissingColumn(working, res)

Inv_updateExhausted(table) ==
  ScriptResult(FALSE, Err(Words(<<"Gagal", "update", table>>)), NoData)

(***************************************************************************)
(* The retry loops of the list page, src/app/(main)/radar/page.tsx.        *)
(***************************************************************************)
List_Ceiling == 8
List_ArchiveCeiling == 6

\* The page's strip test: the name is extracted first, then the class checked.
Page_namesWorkingColumn(working, message) ==
  LET missingColumn == extractMissingColumnName(message) IN
    /\ missingColumn # NoColumn
    /\ In(missingColumn, working)
    /\ Page_isMissingColumnError(message)

Page_strip(working, message) == Delete(working, extractMissingColumnName(message))

List_insertWithColumnFallback_body(working, res) ==
  IF res.error = NoError THEN Done(PageResult(NoError, res.data))
  ELSE IF Page_isDuplicateError(res.error.message)
    THEN Done([PageResult(NoError, res.data) EXCEPT !.duplicate = TRUE])
  ELSE IF Page_namesWorkingColumn(working, res.error.message)
    THEN Continue(Page_strip(working, res.error.message))
  ELSE Done(PageResult(res.error, NoData))

List_insertExhausted(table) ==
  PageResult(
    Err(Words(<<"Gagal", "insert", "ke", table, "setelah", "beberapa", "percobaan">>)), NoData)

List_setCheckOutNow_body(working, res) ==
  IF res.error = NoError THEN Done(Void)
  ELSE IF Page_namesWorkingColumn(working, res.error.message)
    THEN Continue(Page_strip(working, res.error.message))
  ELSE IF /\ StatusIs(working, "ARCHIVED")
          /\ List_shouldFallbackToFinishedStatus(res.error.message)
    THEN Continue([working EXCEPT !["status"] = "FINISHED"])
  ELSE IF Page_isPermissionError(res.error.message)
    THEN Done(Thrown(Err(Words(
           <<"Tidak", "punya", "izin", "check-out", "pada", "data", "check-in", "ini.">>))))
  ELSE Done(Thrown(res.error))

List_checkOutExhausted == Thrown(Err(Words(<<"Gagal", "check-out", "sekarang.">>)))

\* setCheckInNow, archive by status: the request is sent once before the loop
\* and again by each of at most 6 passes; what the loop leaves is the answer
\* to the last request (archiveResult), which the caller then reads.
List_archiveByStatus_body(working, res) ==
  IF res.error = NoError THEN Done(PageResult(NoError, NoData))
  ELSE IF /\ StatusIs(working, "ARCHIVED")
          /\ List_shouldFallbackToFinishedStatus(res.error.message)
    THEN Continue([working EXCEPT !["status"] = "FINISHED"])
  ELSE IF Page_namesWorkingColumn(working, res.error.message)
    THEN Continue(Page_strip(working, res.error.message))
  ELSE Done(PageResult(res.error, NoData))

\* setCheckInNow, archive of the latest row by id: the request is sent by each
\* of at most 6 passes; nothing is returned or thrown when the passes run out.
List_archiveLatestRow_body(working, res) ==
  IF res.error = NoError THEN Done(PageResult(NoError, NoData))
  ELSE IF /\ StatusIs(working, "ARCHIVED")
          /\ List_shouldFallbackToFinishedStatus(res.error.message)
    THEN Continue([working EXCEPT !["status"] = "FINISHED"])
  ELSE IF Page_namesWorkingColumn(working, res.error.message)
    THEN Continue(Page_strip(working, res.error.message))
  ELSE Done(PageResult(res.error, NoData))

(***************************************************************************)
(* The retry loops of the detail page, src/app/(main)/radar/[id]/page.tsx. *)
(***************************************************************************)
Det_Ceiling == 8

Det_updateWithColumnFallback_body(working, res) ==
  IF res.error = NoError THEN Done(PageResult(NoError, NoData))
  ELSE IF Page_namesWorkingColumn(working, res.error.message)
    THEN Continue(Page_strip(working, res.error.message))
  ELSE Done(PageResult(res.error, NoData))

Det_updateExhausted(table) == PageResult(Err(Words(<<"Gagal", "update", table>>)), NoData)

Det_insertWithColumnFallback_body(working, res) ==
  IF res.error = NoError THEN Done(PageResult(NoError, NoData))
  ELSE IF Page_namesWorkingColumn(working, res.error.message)
    THEN Continue(Page_strip(working, res.error.message))
  ELSE Done(PageResult(res.error, NoData))

Det_insertExhausted(table) ==
  PageResult(Err(Words(<<"Gagal", "insert/upsert", table>>)), NoData)

\* createRadarComment, native insert: the while loop strips parent_id once and
\* image_url once (moving the image into the content); what it leaves is the
\* answer to the last insert (nativeInsert).
CommentPayload ==
  [k \in {"user_id", "radar_id", "content", "parent_id", "image_url"} |->
     IF k = "content" THEN "composedContent" ELSE "value of " \o k]

Det_createRadarComment_body(payload, working, res) ==
  LET message == res.error.message
      triedParentFallback == In("parent_id", payload) /\ ~In("parent_id", working)
      triedImageFallback == In("image_url", payload) /\ ~In("image_url", working)
  IN
  IF res.error = NoError THEN Done(PageResult(NoError, res.data))
  ELSE IF /\ ~triedParentFallback
          /\ In("parent_id", payload)
          /\ Page_isMissingColumnError(message)
          /\ extractMissingColumnName(message) = "parent_id"
    THEN Continue(Delete(working, "parent_id"))
  ELSE IF /\ ~triedImageFallback
          /\ In("image_url", payload)
          /\ Page_isMissingColumnError(message)
          /\ extractMissingColumnName(message) = "image_url"
    THEN Continue([Delete(working, "image_url") EXCEPT
                     !["content"] = "composedContent [image] value of image_url"])
  ELSE Done(PageResult(res.error, NoData))

(***************************************************************************)
(* The remote store.  A response is what the client sees (error, data)     *)
(* tagged with what the store meant by it (class, column).                 *)
(***************************************************************************)
Accept(data) ==
  [class |-> "accept", column |-> NoColumn, error |-> NoError, data |-> data]

Reject(class, column, error) ==
  [class |-> class, column |-> column, error |-> error, data |-> NoData]

NoResponse == [class |-> "none", column |-> NoColumn, error |-> NoError, data |-> NoData]

\* A column no payload holds.
GhostColumn == "ghost_column"

\* The three texts in which the store reports that column c does not exist.
MissingColumnResponses(table, columns) ==
  UNION {{Reject("missing_column", c, MsgColumnMissing(c)),
          Reject("missing_column", c, MsgColumnOfRelation(c, table)),
          Reject("missing_column", c, MsgSchemaCacheColumn(c, table))} : c \in columns}

MissingRelationResponses(table) ==
  {Reject("missing_relation", NoColumn, MsgRelationMissing(table)),
   Reject("missing_relation", NoColumn, MsgSchemaCacheTable(table))}

PermissionResponses(table) ==
  {Reject("permission", NoColumn, MsgRls(table)),
   Reject("permission", NoColumn, MsgPermissionDenied(table))}

\* The store rejects the status value of the request: by the enum type of the
\* column, or by a check constraint on it.
EnumResponses(table, body) ==
  {Reject("enum", NoColumn, MsgEnum(IF In("status", body) THEN body["status"] ELSE "ARCHIVED")),
   Reject("enum", NoColumn, MsgCheckConstraint(table))}

OtherResponses(table) ==
  {Reject("duplicate", NoColumn, MsgDuplicate),
   Reject("foreign_key", NoColumn, MsgForeignKey(table)),
   Reject("other", NoColumn, MsgQuotaFull)}

AcceptResponses == {Accept("row"), Accept(NoData)}

\* What the store may answer to a request with this body, under each mock:
\*   any                  anything
\*   missingThenAccept    a column of the request is missing, or the request is accepted
\*   alwaysMissingColumn  some column is missing, whichever, every time
\*   enumOnce             the status value is rejected once, then the request is accepted
\*   alwaysEnum           the status value is rejected every time
Responses(mock, table, columns, body, nsent) ==
  CASE mock = "missingThenAccept" ->
         MissingColumnResponses(table, columns \intersect DOMAIN body)
           \union AcceptResponses
    [] mock = "alwaysMissingColumn" ->
         MissingColumnResponses(table, columns \union {GhostColumn})
    [] mock = "enumOnce" ->
         IF nsent = 0 THEN EnumResponses(table, body) ELSE AcceptResponses
    [] mock = "alwaysEnum" -> EnumResponses(table, body)
    [] OTHER ->
         MissingColumnResponses(table, columns \union {GhostColumn})
           \union MissingRelationResponses(table) \union PermissionResponses(table)
           \union EnumResponses(table, body) \union OtherResponses(table)
           \union AcceptResponses

(***************************************************************************)
(* State of one shim call.                                                 *)
(***************************************************************************)
VARIABLES
  fn,         \* the function whose loop runs
  table,      \* the table it writes
  payload,    \* the payload the caller passed
  working,    \* the working copy
  attempt,    \* the loop counter
  sent,       \* requests sent by this call
  firstBody,  \* body of the first request
  accepted,   \* body of the request the store accepted
  statusSent, \* status value of each request of a status-update call
  reported,   \* columns the store has reported missing
  last,       \* the last response
  result,     \* what the call returned or threw
  mock,       \* how the store answers
  op,         \* the operation that runs
  pc,         \* the await it is at
  source,     \* the generation of the event it is about
  store,      \* the deployment: its tables, procedures and event policy
  log,        \* the requests sent by the operation, in order
  eventGen,   \* the generation in which the operation created its event
  outcome,    \* what the operation returned or threw
  members,    \* the status of each user's row in each participant table
  radar,      \* the event the members belong to, and its deployment
  call,       \* where each user's call of join_radar_event stands
  did,        \* the last operation on the members, and the rows it found
  page,       \* the list page: its query, its dialogs and what opened them
  checkins,   \* the status of each check-in row of the user, by table
  likes       \* the like rows of one user on one comment, and the toggles

shimVars ==
  <<fn, table, payload, working, attempt, sent, firstBody, accepted, statusSent,
    reported, last, result, mock>>

opVars == <<op, pc, source, store, log, eventGen, outcome>>

memberVars == <<members, radar, call, did>>

pageVars == <<page, checkins, likes>>

vars == <<shimVars, opVars, memberVars, pageVars>>

\* No membership is followed.
NoMembers ==
  /\ members = <<>>
  /\ radar = <<>>
  /\ call = <<>>
  /\ did = <<>>

\* No page is mounted and no check-in row is followed.
NoPage ==
  /\ page = <<>>
  /\ checkins = <<>>
  /\ likes = <<>>

\* No operation runs.
NoOperation ==
  /\ op = "none"
  /\ pc = "none"
  /\ source = "none"
  /\ store = <<>>
  /\ log = <<>>
  /\ eventGen = "none"
  /\ outcome = <<>>

NoBody == <<>>

StatusOf(b) == IF In("status", b) THEN b["status"] ELSE "absent"

StatusUpdateFns ==
  {"Flow_archiveCheckInsByUser", "Flow_checkOutById", "Inv_updateWithColumnFallback",
   "List_setCheckOutNow", "List_archiveByStatus", "List_archiveLatestRow"}

InsertFns ==
  {"Flow_insertWithColumnFallback", "Inv_insertWithColumnFallback",
   "List_insertWithColumnFallback", "Det_insertWithColumnFallback"}

\* const working = { ...payload }; no request sent yet.
StartCall(f, t, p) ==
  /\ fn = f
  /\ table = t
  /\ payload = p
  /\ working = p
  /\ attempt = 0
  /\ sent = 0
  /\ firstBody = NoBody
  /\ accepted = NoBody
  /\ statusSent = <<>>
  /\ reported = {}
  /\ last = NoResponse
  /\ result = NoResult
  /\ NoOperation
  /\ NoMembers
  /\ NoPage

\* The request carrying the working copy is sent and answered with res.
Exchange(res) ==
  /\ sent' = sent + 1
  /\ firstBody' = IF sent = 0 THEN working ELSE firstBody
  /\ accepted' = IF res.class = "accept" THEN working ELSE accepted
  /\ statusSent' = IF fn \in StatusUpdateFns
                     THEN Append(statusSent, StatusOf(working)) ELSE statusSent
  /\ reported' = IF res.class = "missing_column"
                   THEN reported \union {res.column} ELSE reported
  /\ last' = res
  /\ UNCHANGED <<fn, table, payload, mock>>
  /\ UNCHANGED <<opVars, memberVars, pageVars>>

\* Variant: the loop has no ceiling.
Pass_unbounded(out, ceiling, exhausted) ==
  IF out.done
    THEN result' = out.result /\ UNCHANGED <<working, attempt>>
    ELSE /\ working' = out.working
         /\ attempt' = attempt + 1
         /\ result' = NoResult

\* One pass of a for loop with a ceiling: for (attempt = 0; attempt < ceiling;
\* attempt += 1) { request; body }, then the statement after the loop.
Pass(out, ceiling, exhausted) ==
  IF out.done
    THEN result' = out.result /\ UNCHANGED <<working, attempt>>
    ELSE /\ working' = out.working
         /\ attempt' = attempt + 1
         /\ result' = IF attempt + 1 < ceiling THEN NoResult ELSE exhausted

Running(f) == fn = f /\ result = NoResult

\* The columns an error may name.  The columns of a small payload are named
\* in any order; those of the whole invite row one by one in the order of the
\* request, as the store checks them, or the column named last once more.
Nameable ==
  IF payload # WidePayload THEN DOMAIN payload
  ELSE {InviteColumns[j] : j \in {i \in 1..Len(InviteColumns) :
           /\ In(InviteColumns[i], working)
           /\ \A h \in 1..(i - 1) : ~In(InviteColumns[h], working)}}
       \union ({last.column} \ {NoColumn})

Answers == Responses(mock, table, Nameable, working, sent)

Flow_insertWithColumnFallback ==
  /\ Running("Flow_insertWithColumnFallback")
  /\ \E res \in Answers :
       /\ Exchange(res)
       /\ Pass(Script_insertWithColumnFallback_body(working, res),
               Flow_Ceiling, Script_insertExhausted(table))

Flow_archiveCheckInsByUser ==
  /\ Running("Flow_archiveCheckInsByUser")
  /\ \E res \in Answers :
       /\ Exchange(res)
       /\ Pass(Flow_archiveCheckInsByUser_body(working, res),
               Flow_Ceiling, Flow_archiveExhausted(table))

Flow_checkOutById ==
  /\ Running("Flow_checkOutById")
  /\ \E res \in Answers :
       /\ Exchange(res)
       /\ Pass(Flow_checkOutById_body(working, res),
               Flow_Ceiling, Flow_checkOutExhausted(table))

Inv_insertWithColumnFallback ==
  /\ Running("Inv_insertWithColumnFallback")
  /\ \E res \in Answers :
       /\ Exchange(res)
       /\ Pass(Script_insertWithColumnFallback_body(working, res),
               Inv_Ceiling, Script_insertExhausted(table))

Inv_updateWithColumnFallback ==
  /\ Running("Inv_updateWithColumnFallback")
  /\ \E res \in Answers :
       /\ Exchange(res)
       /\ Pass(Inv_updateWithColumnFallback_body(working, res),
               Inv_Ceiling, Inv_updateExhausted(table))

List_insertWithColumnFallback ==
  /\ Running("List_insertWithColumnFallback")
  /\ \E res \in Answers :
       /\ Exchange(res)
       /\ Pass(List_insertWithColumnFallback_body(working, res),
               List_Ceiling, List_insertExhausted(table))

List_setCheckOutNow ==
  /\ Running("List_setCheckOutNow")
  /\ \E res \in Answers :
       /\ Exchange(res)
       /\ Pass(List_setCheckOutNow_body(working, res),
               List_Ceiling, List_checkOutExhausted)

\* let archiveResult = await archiveByStatus(); for (attempt < 6) { if
\* (!archiveResult.error) break; ...; archiveResult = await archiveByStatus();
\* continue; }: the loop does not look at the answer to the request of its
\* 6th pass, it leaves it to the caller.
List_archiveByStatus ==
  /\ Running("List_archiveByStatus")
  /\ \E res \in Answers :
       /\ Exchange(res)
       /\ IF attempt < List_ArchiveCeiling
            THEN LET out == List_archiveByStatus_body(working, res) IN
                   IF out.done
                     THEN result' = out.result /\ UNCHANGED <<working, attempt>>
                     ELSE /\ working' = out.working
                          /\ attempt' = attempt + 1
                          /\ result' = NoResult
            ELSE /\ result' = PageResult(res.error, NoData)
                 /\ UNCHANGED <<working, attempt>>

\* for (attempt < 6) { fallbackArchive = await update; if (!error) break; ...
\* continue; }: when the passes run out the loop just ends, on the last error.
List_archiveLatestRow ==
  /\ Running("List_archiveLatestRow")
  /\ \E res \in Answers :
       /\ Exchange(res)
       /\ Pass(List_archiveLatestRow_body(working, res),
               List_ArchiveCeiling, PageResult(res.error, NoData))

Det_updateWithColumnFallback ==
  /\ Running("Det_updateWithColumnFallback")
  /\ \E res \in Answers :
       /\ Exchange(res)
       /\ Pass(Det_updateWithColumnFallback_body(working, res),
               Det_Ceiling, Det_updateExhausted(table))

Det_insertWithColumnFallback ==
  /\ Running("Det_insertWithColumnFallback")
  /\ \E res \in Answers :
       /\ Exchange(res)
       /\ Pass(Det_insertWithColumnFallback_body(working, res),
               Det_Ceiling, Det_insertExhausted(table))

\* while (nativeInsert.error) { ... break; }: the loop has no counter, it ends
\* when neither one-time fallback applies.
Det_createRadarComment ==
  /\ Running("Det_createRadarComment")
  /\ \E res \in Answers :
       /\ Exchange(res)
       /\ LET out == Det_createRadarComment_body(payload, working, res) IN
            IF out.done
              THEN result' = out.result /\ UNCHANGED <<working, attempt>>
              ELSE /\ working' = out.working
                   /\ attempt' = attempt + 1
                   /\ result' = NoResult

(***************************************************************************)
(* The calls made: each loop with the payloads its callers pass.           *)
(***************************************************************************)
InsertPayloads == SmallPayloads \union {WidePayload}

\* A comment with or without a parent and an image.
CommentPayloads ==
  {[k \in (DOMAIN CommentPayload) \ drop |-> CommentPayload[k]] :
     drop \in SUBSET {"parent_id", "image_url"}}

Calls ==
  {<<f, "radar_invites", p>> : f \in InsertFns, p \in InsertPayloads}
  \union {<<f, "mass_checkins", ArchivePayload>> : f \in StatusUpdateFns}
  \union {<<"Inv_updateWithColumnFallback", "radar_invites", AcceptInvitePayload>>,
          <<"Det_updateWithColumnFallback", "radar_participants", LeavePayload>>}
  \union {<<"Det_createRadarComment", "radar_comments", p>> : p \in CommentPayloads}

MocksFor(f) ==
  IF f \in StatusUpdateFns
    THEN {"any", "missingThenAccept", "enumOnce", "alwaysEnum"}
    ELSE {"any", "missingThenAccept", "alwaysMissingColumn"}

Init ==
  \E c \in Calls :
    /\ StartCall(c[1], c[2], c[3])
    /\ mock \in MocksFor(c[1])

Next ==
  \/ Flow_insertWithColumnFallback
  \/ Flow_archiveCheckInsByUser
  \/ Flow_checkOutById
  \/ Inv_insertWithColumnFallback
  \/ Inv_updateWithColumnFallback
  \/ List_insertWithColumnFallback
  \/ List_setCheckOutNow
  \/ List_archiveByStatus
  \/ List_archiveLatestRow
  \/ Det_updateWithColumnFallback
  \/ Det_insertWithColumnFallback
  \/ Det_createRadarComment

Spec == Init /\ [][Next]_vars

(***************************************************************************)
(* The operations built on the shims.  Here the store is a deployment: each*)
(* table is present or absent (reported in the text of the query layer or  *)
(* of the database), closed by row-level security, short of a column, or   *)
(* already holds the row; each procedure is present, absent, closed, or    *)
(* raises.  An operation takes one step per await; a call of a shim is one *)
(* step, run to its end against the deployment.                            *)
(***************************************************************************)
\* permission denied for function f
MsgFunctionDenied(f) == Err(Words(<<"permission", "denied", "for", "function", f>>))
\* not_authenticated (raised by join_radar_event)
MsgRaisedNotAuthenticated == Err(Words(<<"not_authenticated">>))

EventTable(gen) == IF gen = "v2" THEN "radar_events_v2" ELSE "radar_events"
ParticipantTable(gen) == IF gen = "v2" THEN "radar_participants_v2" ELSE "radar_participants"
OtherGen(gen) == IF gen = "v2" THEN "legacy" ELSE "v2"
ParticipantTables == {"radar_participants", "radar_participants_v2"}

\* The column a table in drift lacks.
DriftColumn(body) == IF In("role", body) THEN "role" ELSE "left_at"

\* The answer of the deployment to an insert or update of body into table t.
StoreAnswer(tables, t, body, isInsert) ==
  LET c == tables[t] IN
  CASE c = "missingCache" -> Reject("missing_relation", NoColumn, MsgSchemaCacheTable(t))
    [] c = "missingPg" -> Reject("missing_relation", NoColumn, MsgRelationMissing(t))
    [] c = "denied" -> Reject("permission", NoColumn, MsgRls(t))
    [] c = "driftCache" /\ In(DriftColumn(body), body) ->
         Reject("missing_column", DriftColumn(body), MsgSchemaCacheColumn(DriftColumn(body), t))
    [] c = "driftPg" /\ In(DriftColumn(body), body) ->
         Reject("missing_column", DriftColumn(body), MsgColumnOfRelation(DriftColumn(body), t))
    [] c = "dup" /\ isInsert -> Reject("duplicate", NoColumn, MsgDuplicate)
    [] c = "fk" /\ In("radar_id", body) -> Reject("foreign_key", NoColumn, MsgForeignKey(t))
    [] OTHER -> Accept("row")

\* What a finished shim call leaves: its result and whether the store
\* accepted a request of it (wrote).
Left(r, wrote) == [result |-> r, wrote |-> wrote]

RECURSIVE Call_List_insertWithColumnFallback(_, _, _, _)
Call_List_insertWithColumnFallback(tables, t, body, n) ==
  IF n >= List_Ceiling THEN Left(List_insertExhausted(t), FALSE)
  ELSE LET res == StoreAnswer(tables, t, body, TRUE)
           out == List_insertWithColumnFallback_body(body, res)
       IN  IF out.done THEN Left(out.result, res.class = "accept")
           ELSE Call_List_insertWithColumnFallback(tables, t, out.working, n + 1)

RECURSIVE Call_Det_insertWithColumnFallback(_, _, _, _)
Call_Det_insertWithColumnFallback(tables, t, body, n) ==
  IF n >= Det_Ceiling THEN Left(Det_insertExhausted(t), FALSE)
  ELSE LET res == StoreAnswer(tables, t, body, TRUE)
           out == Det_insertWithColumnFallback_body(body, res)
       IN  IF out.done THEN Left(out.result, res.class = "accept")
           ELSE Call_Det_insertWithColumnFallback(tables, t, out.working, n + 1)

RECURSIVE Call_Det_updateWithColumnFallback(_, _, _, _)
Call_Det_updateWithColumnFallback(tables, t, body, n) ==
  IF n >= Det_Ceiling THEN Left(Det_updateExhausted(t), FALSE)
  ELSE LET res == StoreAnswer(tables, t, body, FALSE)
           out == Det_updateWithColumnFallback_body(body, res)
       IN  IF out.done THEN Left(out.result, res.class = "accept")
           ELSE Call_Det_updateWithColumnFallback(tables, t, out.working, n + 1)

RECURSIVE Call_Script_insertWithColumnFallback(_, _, _, _, _)
Call_Script_insertWithColumnFallback(ceiling, tables, t, body, n) ==
  IF n >= ceiling THEN Left(Script_insertExhausted(t), FALSE)
  ELSE LET res == StoreAnswer(tables, t, body, TRUE)
           out == Script_insertWithColumnFallback_body(body, res)
       IN  IF out.done THEN Left(out.result, res.class = "accept")
           ELSE Call_Script_insertWithColumnFallback(ceiling, tables, t, out.working, n + 1)

\* The rows the operations write.
ParticipantRow(role, status) ==
  [k \in {"radar_id", "user_id", "role", "status"} |->
     CASE k = "role" -> role [] k = "status" -> status [] OTHER -> "value of " \o k]

EventRow == [k \in {"title", "church_id", "creator_id", "status"} |->
               IF k = "status" THEN "PUBLISHED" ELSE "value of " \o k]

\* The answer of the deployment to a call of procedure f.
RpcAnswer(rpc, f) ==
  CASE rpc = "joined" -> Accept("JOINED")
    [] rpc = "created" -> Accept("invite")
    [] rpc = "unverified" -> Accept(NoData)
    [] rpc = "pending" -> Accept("PENDING")
    [] rpc = "absentCache" -> Reject("function_missing", NoColumn, MsgFunctionCache(f))
    [] rpc = "absentPg" -> Reject("function_missing", NoColumn, MsgFunctionMissing(f))
    [] rpc = "denied" -> Reject("permission", NoColumn, MsgFunctionDenied(f))
    [] rpc = "notAuthenticated" -> Reject("permission", NoColumn, MsgNotAuthenticated)
    [] rpc = "ambiguous" -> Reject("ambiguous", NoColumn, MsgAmbiguous("radar_id"))
    [] rpc = "raisesNotAuthenticated" -> Reject("other", NoColumn, MsgRaisedNotAuthenticated)
    [] OTHER -> Reject("other", NoColumn, MsgQuotaFull)

RpcBehaviours ==
  {"joined", "pending", "absentCache", "absentPg", "denied", "notAuthenticated",
   "ambiguous", "raisesNotAuthenticated", "quotaFull"}

\* The answer to the read of the event's join policy.
PolicyAnswer(policy, t) ==
  CASE policy = "approval" -> Accept("require_host_approval")
    [] policy = "open" -> Accept("open")
    [] policy = "denied" -> Reject("permission", NoColumn, MsgPermissionDenied(t))
    [] policy = "noColumn" ->
         Reject("missing_column", "require_host_approval",
                MsgColumnMissing("require_host_approval"))
    [] OTHER -> Reject("missing_relation", NoColumn, MsgSchemaCacheTable(t))

Policies == {"approval", "open", "denied", "noColumn", "missing"}

\* One request of an operation, as the log keeps it.
Sent(kind, target, res) ==
  [kind |-> kind, target |-> target,
   outcome |-> IF res.class = "accept" THEN "accepted" ELSE res.class]

\* One shim call, as the log keeps it.
Called(kind, target, left) ==
  [kind |-> kind, target |-> target,
   outcome |-> CASE left.wrote -> "accepted"
                 [] left.result.duplicate -> "duplicate"
                 [] OTHER -> "failed"]

Returned(value) == [kind |-> "returned", value |-> value]
Threw(error) == [kind |-> "thrown", value |-> error.message]
ThrewText(ss) == [kind |-> "thrown", value |-> Words(ss)]

\* The operation goes on to its next await, returns, or throws.
Goto(next, entries) ==
  /\ pc' = next
  /\ log' = log \o entries
  /\ UNCHANGED <<op, source, store, outcome, memberVars, pageVars>>

End(out, entries) ==
  /\ pc' = "done"
  /\ log' = log \o entries
  /\ outcome' = out
  /\ UNCHANGED <<op, source, store, memberVars, pageVars>>

Script_isFunctionMissingError(error) ==
  LET msg == normalizeError(error) IN
    \/ includes(msg, <<"42883">>)
    \/ (includes(msg, <<"function">>) /\ includes(msg, <<"does", "not", "exist">>))
    \/ includes(msg, <<"could", "not", "find", "the", "function">>)

JoinProcedure(gen) == IF gen = "v2" THEN "radar_v2_join_event" ELSE "join_radar_event"
LeaveProcedure(gen) == IF gen = "v2" THEN "radar_v2_leave_event" ELSE "leave_radar_event"

\* eventPolicy?.require_host_approval === true ? 'PENDING' : 'JOINED'
fallbackMembershipStatus(policy) == IF policy = "approval" THEN "PENDING" ELSE "JOINED"

\* The read of the join policy, read again without the column when the
\* first read fails on a missing column; then thrown unless permission.
PolicyRead(t) ==
  LET first == PolicyAnswer(store.policy, t)
      again == first.error # NoError /\ Page_isMissingColumnError(first.error.message)
      second == PolicyAnswer(IF store.policy = "noColumn" THEN "open" ELSE store.policy, t)
      reads == IF again THEN <<Sent("read", t, first), Sent("read", t, second)>>
               ELSE <<Sent("read", t, first)>>
      final == IF again THEN second ELSE first
  IN  IF final.error # NoError /\ ~Page_isPermissionError(final.error.message)
        THEN End(Threw(final.error), reads)
        ELSE Goto("primary", reads)

\* The table of the participant loop at this await.
LoopTable == ParticipantTable(IF pc = "primary" THEN source ELSE OtherGen(source))

\* joinRadarEvent of the list page.
List_joinRadarEvent ==
  /\ op = "List_joinRadarEvent" /\ pc # "done"
  /\ UNCHANGED <<shimVars, eventGen>>
  /\ CASE pc = "rpc" ->
            LET f == JoinProcedure(source)
                rpc == RpcAnswer(store.rpc, f)
                message == rpc.error.message
            IN  IF rpc.error = NoError
                  THEN End(Returned(IF rpc.data = "PENDING" THEN "PENDING" ELSE "JOINED"),
                           <<Sent("rpc", f, rpc)>>)
                ELSE IF /\ ~Page_isFunctionMissingError(message)
                        /\ ~Page_isPermissionError(message)
                        /\ ~Page_isNotAuthenticatedError(message)
                        /\ ~List_isAmbiguousReferenceError(message)
                  THEN End(Threw(rpc.error), <<Sent("rpc", f, rpc)>>)
                ELSE Goto("policy", <<Sent("rpc", f, rpc)>>)
       [] pc = "policy" -> PolicyRead(EventTable(source))
       [] OTHER ->
            LET status == fallbackMembershipStatus(store.policy)
                left == Call_List_insertWithColumnFallback(
                          store.tables, LoopTable, ParticipantRow("MEMBER", status), 0)
            IN  IF left.result.error = NoError
                  THEN End(Returned(status), <<Called("insert", LoopTable, left)>>)
                ELSE IF pc = "primary"
                  THEN Goto("secondary", <<Called("insert", LoopTable, left)>>)
                ELSE End(ThrewText(<<"Gagal", "bergabung", "ke", "radar.", "Cek", "kebijakan",
                                     "akses", "radar", "di", "Supabase.">>),
                         <<Called("insert", LoopTable, left)>>)

\* joinRadarEvent of the detail page.
Det_joinRadarEvent ==
  /\ op = "Det_joinRadarEvent" /\ pc # "done"
  /\ UNCHANGED <<shimVars, eventGen>>
  /\ CASE pc = "rpc" ->
            LET f == JoinProcedure(source)
                rpc == RpcAnswer(store.rpc, f)
                message == rpc.error.message
            IN  IF rpc.error = NoError
                  THEN End(Returned(IF rpc.data = "PENDING" THEN "PENDING" ELSE "JOINED"),
                           <<Sent("rpc", f, rpc)>>)
                ELSE IF /\ ~Page_isFunctionMissingError(message)
                        /\ ~Page_isPermissionError(message)
                        /\ ~Page_isNotAuthenticatedError(message)
                  THEN End(Threw(rpc.error), <<Sent("rpc", f, rpc)>>)
                ELSE Goto("policy", <<Sent("rpc", f, rpc)>>)
       [] pc = "policy" -> PolicyRead(EventTable(source))
       [] OTHER ->
            LET status == fallbackMembershipStatus(store.policy)
                left == Call_Det_insertWithColumnFallback(
                          store.tables, LoopTable, ParticipantRow("MEMBER", status), 0)
            IN  IF left.result.error = NoError
                  THEN End(Returned(status), <<Called("insert", LoopTable, left)>>)
                ELSE IF pc = "primary"
                  THEN Goto("secondary", <<Called("insert", LoopTable, left)>>)
                ELSE End(ThrewText(<<"Gagal", "bergabung", "ke", "radar.">>),
                         <<Called("insert", LoopTable, left)>>)

\* joinRadarEventFallback of the two-user invite script.
Inv_joinRadarEventFallback ==
  /\ op = "Inv_joinRadarEventFallback" /\ pc # "done"
  /\ UNCHANGED <<shimVars, eventGen>>
  /\ CASE pc = "rpc" ->
            LET f == JoinProcedure(source)
                rpc == RpcAnswer(store.rpc, f)
            IN  IF rpc.error = NoError
                  THEN End(Returned(rpc.data), <<Sent("rpc", f, rpc)>>)
                  ELSE Goto("primary", <<Sent("rpc", f, rpc)>>)
       [] OTHER ->
            LET left == Call_Script_insertWithColumnFallback(Inv_Ceiling,
                          store.tables, LoopTable, ParticipantRow("MEMBER", "JOINED"), 0)
            IN  IF left.result.ok
                  THEN End(Returned("JOINED"), <<Called("insert", LoopTable, left)>>)
                ELSE IF pc = "primary" /\ Script_isMissingColumnError(left.result.error)
                  THEN Goto("secondary", <<Called("insert", LoopTable, left)>>)
                ELSE End(ThrewText(<<"join", "radar", "failed", "after", "invite", "accepted">>),
                         <<Called("insert", LoopTable, left)>>)

\* leaveRadarEvent of the detail page.
Det_leaveRadarEvent ==
  /\ op = "Det_leaveRadarEvent" /\ pc # "done"
  /\ UNCHANGED <<shimVars, eventGen>>
  /\ CASE pc = "rpc" ->
            LET f == LeaveProcedure(source)
                rpc == RpcAnswer(store.rpc, f)
                message == rpc.error.message
            IN  IF /\ rpc.error # NoError
                   /\ ~Page_isFunctionMissingError(message)
                   /\ ~Page_isPermissionError(message)
                   /\ ~Page_isNotAuthenticatedError(message)
                  THEN End(Threw(rpc.error), <<Sent("rpc", f, rpc)>>)
                ELSE IF rpc.error = NoError
                  THEN End(Returned("void"), <<Sent("rpc", f, rpc)>>)
                ELSE Goto("primary", <<Sent("rpc", f, rpc)>>)
       [] pc \in {"primary", "secondary"} ->
            LET left == Call_Det_updateWithColumnFallback(
                          store.tables, LoopTable, LeavePayload, 0)
                lastError == left.result.error.message
            IN  IF left.result.error = NoError
                  THEN Goto("chat", <<Called("update", LoopTable, left)>>)
                ELSE IF \/ pc = "secondary"
                        \/ /\ ~Page_isMissingColumnError(lastError)
                           /\ ~Page_isMissingRelationError(lastError)
                           /\ ~Page_isPermissionError(lastError)
                  THEN End(Threw(left.result.error), <<Called("update", LoopTable, left)>>)
                ELSE Goto("secondary", <<Called("update", LoopTable, left)>>)
       [] OTHER ->
            \E chatId \in {"", "chat"} :
              IF chatId = "" THEN End(Returned("void"), <<>>)
              ELSE End(Returned("void"),
                       <<[kind |-> "delete", target |-> "chat_members", outcome |-> "accepted"]>>
                       \o IF source = "v2"
                            THEN <<[kind |-> "update", target |-> "radar_chat_members_v2",
                                    outcome |-> "accepted"]>>
                            ELSE <<>>)

\* fail(message); return;
Failed(ss) == [kind |-> "failed", value |-> Words(ss)]

NotificationRow ==
  [k \in {"user_id", "type", "title", "message", "sender_id", "actor_id", "data"} |->
     "value of " \o k]

\* Variant: the legacy insert is never taken to have created the event.
PageCreated_never(left) == FALSE

\* !created.error && created.data?.id (pages); created.ok && created.data?.id
\* (scripts)
PageCreated(left) == left.result.error = NoError /\ left.result.data # NoData
ScriptCreated(left) == left.result.ok /\ left.result.data # NoData

\* The host table at this await: the generation of the event first.
HostTable == ParticipantTable(IF pc = "host1" THEN eventGen ELSE OtherGen(eventGen))

\* The event is created in generation gen and the operation goes on.
Created(gen, next, entries) == eventGen' = gen /\ Goto(next, entries)

\* createRadarEvent of the list page.
List_createRadarEvent ==
  /\ op = "List_createRadarEvent" /\ pc # "done"
  /\ UNCHANGED shimVars
  /\ LET legacyCreated == Call_List_insertWithColumnFallback(
                            store.tables, "radar_events", EventRow, 0)
         v2Insert == Call_List_insertWithColumnFallback(
                       store.tables, "radar_events_v2", EventRow, 0)
     IN
     CASE pc = "legacy" ->
            IF PageCreated(legacyCreated)
              THEN Created("legacy", "host1", <<Called("insert", "radar_events", legacyCreated)>>)
              ELSE Goto("v2", <<Called("insert", "radar_events", legacyCreated)>>)
                   /\ UNCHANGED eventGen
       [] pc = "v2" ->
            IF PageCreated(v2Insert)
              THEN Created("v2", "host1", <<Called("insert", "radar_events_v2", v2Insert)>>)
              ELSE /\ End(IF legacyCreated.result.error # NoError
                            THEN Threw(legacyCreated.result.error)
                          ELSE IF v2Insert.result.error # NoError
                            THEN Threw(v2Insert.result.error)
                          ELSE ThrewText(<<"Gagal", "membuat", "radar">>),
                          <<Called("insert", "radar_events_v2", v2Insert)>>)
                   /\ UNCHANGED eventGen
       [] OTHER ->
            /\ End(Returned("radarId"),
                   <<Called("insert", HostTable,
                       Call_List_insertWithColumnFallback(
                         store.tables, HostTable, ParticipantRow("HOST", "JOINED"), 0))>>)
            /\ UNCHANGED eventGen

\* createPersonalRadarInvite of the list page, with finalizePersonalInvite.
List_createPersonalRadarInvite ==
  /\ op = "List_createPersonalRadarInvite" /\ pc # "done"
  /\ UNCHANGED shimVars
  /\ LET legacyCreated == Call_List_insertWithColumnFallback(
                            store.tables, "radar_events", EventRow, 0)
         v2Created == Call_List_insertWithColumnFallback(
                        store.tables, "radar_events_v2", EventRow, 0)
         host == Call_List_insertWithColumnFallback(
                   store.tables, HostTable, ParticipantRow("HOST", "JOINED"), 0)
         inviteBody == IF pc = "invite" THEN WidePayload ELSE Delete(WidePayload, "radar_id")
         inviteInsert == Call_List_insertWithColumnFallback(
                           store.tables, "radar_invites", inviteBody, 0)
         notificationResult == Call_List_insertWithColumnFallback(
                                 store.tables, "notifications", NotificationRow, 0)
         rpcInvite == RpcAnswer(store.rpc, "radar_v2_send_invite")
     IN
     CASE pc = "rpc" ->
            /\ UNCHANGED eventGen
            /\ IF store.rpc = "skipped" THEN Goto("legacy", <<>>)
               ELSE IF rpcInvite.error = NoError
                 THEN IF rpcInvite.data # NoData
                        THEN End(Returned("radarId"),
                                 <<Sent("rpc", "radar_v2_send_invite", rpcInvite)>>)
                        ELSE Goto("legacy",
                               <<Sent("rpc", "radar_v2_send_invite", rpcInvite),
                                 Sent("read", "radar_invites_v2", Accept(NoData)),
                                 Sent("read", "radar_invites", Accept(NoData))>>)
               ELSE IF /\ ~Page_isFunctionMissingError(rpcInvite.error.message)
                       /\ ~Page_isPermissionError(rpcInvite.error.message)
                       /\ ~Page_isNotAuthenticatedError(rpcInvite.error.message)
                 THEN End(Threw(rpcInvite.error),
                          <<Sent("rpc", "radar_v2_send_invite", rpcInvite)>>)
               ELSE Goto("legacy", <<Sent("rpc", "radar_v2_send_invite", rpcInvite)>>)
       [] pc = "legacy" ->
            IF PageCreated(legacyCreated)
              THEN Created("legacy", "host1", <<Called("insert", "radar_events", legacyCreated)>>)
              ELSE Goto("v2", <<Called("insert", "radar_events", legacyCreated)>>)
                   /\ UNCHANGED eventGen
       [] pc = "v2" ->
            IF PageCreated(v2Created)
              THEN Created("v2", "host1", <<Called("insert", "radar_events_v2", v2Created)>>)
              ELSE /\ End(IF legacyCreated.result.error # NoError
                            THEN Threw(legacyCreated.result.error)
                          ELSE IF v2Created.result.error # NoError
                            THEN Threw(v2Created.result.error)
                          ELSE ThrewText(<<"Gagal", "membuat", "ajak", "misa", "personal.">>),
                          <<Called("insert", "radar_events_v2", v2Created)>>)
                   /\ UNCHANGED eventGen
       [] pc \in {"host1", "host2"} ->
            /\ UNCHANGED eventGen
            /\ IF host.result.error = NoError
                 THEN Goto("invite", <<Called("insert", HostTable, host)>>)
               ELSE IF pc = "host1" /\ Page_isMissingColumnError(host.result.error.message)
                 THEN Goto("host2", <<Called("insert", HostTable, host)>>)
               ELSE End(Threw(host.result.error), <<Called("insert", HostTable, host)>>)
       [] pc \in {"invite", "inviteNoRadar"} ->
            /\ UNCHANGED eventGen
            /\ IF /\ pc = "invite"
                  /\ inviteInsert.result.error # NoError
                  /\ Page_isForeignKeyError(inviteInsert.result.error.message)
                 THEN Goto("inviteNoRadar", <<Called("insert", "radar_invites", inviteInsert)>>)
               ELSE IF inviteInsert.result.duplicate
                 THEN End(ThrewText(<<"Undangan", "personal", "untuk", "user", "ini",
                                      "sudah", "aktif.">>),
                          <<Called("insert", "radar_invites", inviteInsert)>>)
               ELSE IF inviteInsert.result.error # NoError
                 THEN End(Threw(inviteInsert.result.error),
                          <<Called("insert", "radar_invites", inviteInsert)>>)
               ELSE Goto("notify", <<Called("insert", "radar_invites", inviteInsert)>>)
       [] OTHER ->
            /\ UNCHANGED eventGen
            /\ IF /\ notificationResult.result.error # NoError
                  /\ ~Page_isMissingColumnError(notificationResult.result.error.message)
                 THEN End(Threw(notificationResult.result.error),
                          <<Called("insert", "notifications", notificationResult)>>)
                 ELSE End(Returned("radarId"),
                          <<Called("insert", "notifications", notificationResult)>>)

\* main of the radar-flow script, from the creation of the radar to the
\* host participant.
Flow_main ==
  /\ op = "Flow_main" /\ pc # "done"
  /\ UNCHANGED shimVars
  /\ LET legacyRadarInsert == Call_Script_insertWithColumnFallback(Flow_Ceiling,
                                store.tables, "radar_events", EventRow, 0)
         v2RadarInsert == Call_Script_insertWithColumnFallback(Flow_Ceiling,
                            store.tables, "radar_events_v2", EventRow, 0)
         participantInsert == Call_Script_insertWithColumnFallback(Flow_Ceiling,
                                store.tables, ParticipantTable(eventGen),
                                ParticipantRow("HOST", "JOINED"), 0)
     IN
     CASE pc = "legacy" ->
            IF ScriptCreated(legacyRadarInsert)
              THEN Created("legacy", "host1",
                     <<Called("insert", "radar_events", legacyRadarInsert)>>)
              ELSE Goto("v2", <<Called("insert", "radar_events", legacyRadarInsert)>>)
                   /\ UNCHANGED eventGen
       [] pc = "v2" ->
            IF ScriptCreated(v2RadarInsert)
              THEN Created("v2", "host1", <<Called("insert", "radar_events_v2", v2RadarInsert)>>)
              ELSE /\ End(Failed(<<"radar", "create">>),
                          <<Called("insert", "radar_events_v2", v2RadarInsert)>>)
                   /\ UNCHANGED eventGen
       [] OTHER ->
            /\ UNCHANGED eventGen
            /\ IF ~participantInsert.result.ok /\ ~participantInsert.result.permission
                 THEN End(Failed(<<"radar", "participant", "host">>),
                          <<Called("insert", ParticipantTable(eventGen), participantInsert)>>)
                 ELSE End(Returned("radarId"),
                          <<Called("insert", ParticipantTable(eventGen), participantInsert)>>)

\* main of the two-user invite script, from the invite procedure to the
\* invite row.
Inv_main ==
  /\ op = "Inv_main" /\ pc # "done"
  /\ UNCHANGED shimVars
  /\ LET legacyRadar == Call_Script_insertWithColumnFallback(Inv_Ceiling,
                          store.tables, "radar_events", EventRow, 0)
         v2Radar == Call_Script_insertWithColumnFallback(Inv_Ceiling,
                      store.tables, "radar_events_v2", EventRow, 0)
         hostInsert == Call_Script_insertWithColumnFallback(Inv_Ceiling,
                         store.tables, HostTable, ParticipantRow("HOST", "JOINED"), 0)
         inviteBody == IF pc = "invite" THEN WidePayload ELSE Delete(WidePayload, "radar_id")
         inviteInsert == Call_Script_insertWithColumnFallback(Inv_Ceiling,
                           store.tables, "radar_invites", inviteBody, 0)
         rpcInvite == RpcAnswer(store.rpc, "radar_v2_send_invite")
     IN
     CASE pc = "rpc" ->
            /\ UNCHANGED eventGen
            /\ IF rpcInvite.error = NoError
                 THEN IF rpcInvite.data # NoData
                        THEN End(Returned("inviteId"),
                                 <<Sent("rpc", "radar_v2_send_invite", rpcInvite),
                                   Sent("read", "radar_invites_v2", Accept("invite"))>>)
                        ELSE Goto("legacy",
                               <<Sent("rpc", "radar_v2_send_invite", rpcInvite),
                                 Sent("read", "radar_invites_v2", Accept(NoData)),
                                 Sent("read", "radar_invites", Accept(NoData))>>)
               ELSE IF /\ ~Script_isFunctionMissingError(rpcInvite.error)
                       /\ ~Script_isPermissionError(rpcInvite.error)
                 THEN End(Failed(<<"send", "personal", "invite", "rpc">>),
                          <<Sent("rpc", "radar_v2_send_invite", rpcInvite)>>)
               ELSE Goto("legacy", <<Sent("rpc", "radar_v2_send_invite", rpcInvite)>>)
       [] pc = "legacy" ->
            IF ScriptCreated(legacyRadar)
              THEN Created("legacy", "host1", <<Called("insert", "radar_events", legacyRadar)>>)
              ELSE Goto("v2", <<Called("insert", "radar_events", legacyRadar)>>)
                   /\ UNCHANGED eventGen
       [] pc = "v2" ->
            IF ScriptCreated(v2Radar)
              THEN Created("v2", "host1", <<Called("insert", "radar_events_v2", v2Radar)>>)
              ELSE /\ End(Failed(<<"create", "personal", "radar", "fallback">>),
                          <<Called("insert", "radar_events_v2", v2Radar)>>)
                   /\ UNCHANGED eventGen
       [] pc \in {"host1", "host2"} ->
            /\ UNCHANGED eventGen
            /\ IF hostInsert.result.ok
                 THEN Goto("invite", <<Called("insert", HostTable, hostInsert)>>)
               ELSE IF pc = "host1"
                 THEN Goto("host2", <<Called("insert", HostTable, hostInsert)>>)
               ELSE End(Failed(<<"host", "participant", "insert", "gagal">>),
                        <<Called("insert", HostTable, hostInsert)>>)
       [] OTHER ->
            /\ UNCHANGED eventGen
            /\ IF /\ pc = "invite"
                  /\ inviteInsert.result.error # NoError
                  /\ Script_isForeignKeyError(inviteInsert.result.error)
                 THEN Goto("inviteNoRadar", <<Called("insert", "radar_invites", inviteInsert)>>)
               ELSE IF ~inviteInsert.result.ok
                 THEN End(Failed(<<"create", "personal", "invite", "fallback">>),
                          <<Called("insert", "radar_invites", inviteInsert)>>)
               ELSE End(Returned("inviteId"),
                        <<Called("insert", "radar_invites", inviteInsert)>>)

(***************************************************************************)
(* The deployments the operations run against, and their specification.    *)
(***************************************************************************)
\* No shim is called on its own.
NoCall ==
  /\ fn = "none"
  /\ table = "none"
  /\ payload = <<>>
  /\ working = <<>>
  /\ attempt = 0
  /\ sent = 0
  /\ firstBody = NoBody
  /\ accepted = NoBody
  /\ statusSent = <<>>
  /\ reported = {}
  /\ last = NoResponse
  /\ result = NoResult
  /\ mock = "none"

Generations == {"legacy", "v2"}

JoinOps == {"List_joinRadarEvent", "Det_joinRadarEvent", "Inv_joinRadarEventFallback"}
PersonalOps == {"List_createPersonalRadarInvite", "Inv_main"}
CreateOps == {"List_createRadarEvent", "Flow_main"} \union PersonalOps

\* The states a table can be in, for the operations that write it.
MemberTableStates ==
  {"ok", "dup", "missingCache", "missingPg", "denied", "driftCache", "driftPg"}
LeaveTableStates == {"ok", "missingCache", "missingPg", "denied", "driftCache"}
EventTableStates == {"ok", "missingCache", "missingPg", "denied"}
HostTableStates == {"ok", "missingCache", "missingPg", "denied", "driftCache"}
InviteTableStates == {"ok", "fk", "dup", "denied"}

Tables(events, events_v2, participants, participants_v2, invites, notifications) ==
  [t \in {"radar_events", "radar_events_v2", "radar_participants", "radar_participants_v2",
          "radar_invites", "notifications"} |->
     CASE t = "radar_events" -> events
       [] t = "radar_events_v2" -> events_v2
       [] t = "radar_participants" -> participants
       [] t = "radar_participants_v2" -> participants_v2
       [] t = "radar_invites" -> invites
       [] OTHER -> notifications]

Deployment(tables, rpc, policy) == [tables |-> tables, rpc |-> rpc, policy |-> policy]

\* The deployments operation o is run against.
Deployments(o) ==
  CASE o \in {"List_joinRadarEvent", "Det_joinRadarEvent"} ->
         {Deployment(Tables("ok", "ok", p, q, "ok", "ok"), r, y) :
            p \in MemberTableStates, q \in MemberTableStates,
            r \in RpcBehaviours, y \in Policies}
    [] o = "Inv_joinRadarEventFallback" ->
         {Deployment(Tables("ok", "ok", p, q, "ok", "ok"), r, "open") :
            p \in MemberTableStates, q \in MemberTableStates, r \in RpcBehaviours}
    [] o = "Det_leaveRadarEvent" ->
         {Deployment(Tables("ok", "ok", p, q, "ok", "ok"), r, "open") :
            p \in LeaveTableStates, q \in LeaveTableStates, r \in RpcBehaviours}
    [] o \in {"List_createRadarEvent", "Flow_main"} ->
         {Deployment(Tables(e, f, p, q, "ok", "ok"), "none", "open") :
            e \in EventTableStates, f \in EventTableStates,
            p \in HostTableStates, q \in HostTableStates}
    [] o = "List_createPersonalRadarInvite" ->
         {Deployment(Tables(e, f, p, q, i, n), r, "open") :
            e \in {"ok", "missingCache"}, f \in {"ok", "missingCache"},
            p \in HostTableStates, q \in HostTableStates, i \in InviteTableStates,
            n \in {"ok", "denied"},
            r \in {"skipped", "created", "unverified", "absentCache", "quotaFull"}}
    [] OTHER ->
         {Deployment(Tables(e, f, p, q, i, "ok"), r, "open") :
            e \in {"ok", "missingCache"}, f \in {"ok", "missingCache"},
            p \in HostTableStates, q \in HostTableStates, i \in InviteTableStates,
            r \in {"created", "unverified", "absentCache", "quotaFull"}}

Ops == JoinOps \union CreateOps \union {"Det_leaveRadarEvent"}

InitOps ==
  /\ NoCall
  /\ NoMembers
  /\ NoPage
  /\ op \in Ops
  /\ pc = IF op \in {"List_createRadarEvent", "Flow_main"} THEN "legacy" ELSE "rpc"
  /\ source \in IF op \in CreateOps THEN {"none"} ELSE Generations
  /\ store \in Deployments(op)
  /\ log = <<>>
  /\ eventGen = "none"
  /\ outcome = <<>>

NextOps ==
  \/ List_joinRadarEvent
  \/ Det_joinRadarEvent
  \/ Inv_joinRadarEventFallback
  \/ Det_leaveRadarEvent
  \/ List_createRadarEvent
  \/ List_createPersonalRadarInvite
  \/ Flow_main
  \/ Inv_main

SpecOps == InitOps /\ [][NextOps]_vars

(***************************************************************************)
(* The membership of one event: the participant row of each user in the    *)
(* two participant tables.  It is changed by join_radar_event (the         *)
(* procedure of db/radar_rpc_sync_hotfix.sql, a count of the JOINED rows   *)
(* followed by the upsert, each statement reading what is committed when   *)
(* it runs), by the direct path of the clients' join, by the host's        *)
(* decision and by leave.  A client operation is one step here: its        *)
(* requests touch only the rows of its own user.  The procedures behind    *)
(* radar_v2_join_event and leave_radar_event are not part of the           *)
(* repository: an event of generation v2 is joined, and every event is     *)
(* left, by the direct path.                                               *)
(***************************************************************************)
MaxUsers == 2
MaxQuota == 1

Users == 1..MaxUsers

\* The status of a participant row; NONE: the user has no row.
Statuses == {"NONE", "PENDING", "JOINED", "REJECTED", "LEFT"}

\* participantTables: the table of the event's generation first.
PrimaryTable == ParticipantTable(radar.source)
SecondaryTable == ParticipantTable(OtherGen(radar.source))

RowsOf(u) == [t \in ParticipantTables |-> members[t][u]]

\* The operation is over: what it found and what it reported.
Record(name, u, answer) ==
  did' = [op |-> name, user |-> u, was |-> RowsOf(u), reported |-> answer]

\* The rows of the tables in ts whose status is in matching get the status.
SetStatus(ts, u, matching, status) ==
  members' = [t \in ParticipantTables |->
                IF t \in ts /\ members[t][u] \in matching
                  THEN [members[t] EXCEPT ![u] = status]
                  ELSE members[t]]

\* join_radar_event, lines 51 to 61: the quota check.
Sql_join_radar_event_count(u) ==
  /\ radar.procedure = "present"
  /\ call[u] = "idle"
  /\ LET v_joined_count ==
           Cardinality({x \in Users : members["radar_participants"][x] = "JOINED"})
     IN  IF radar.max > 0 /\ v_joined_count >= radar.max
           THEN /\ Record("join_radar_event", u, "Kuota penuh")
                /\ UNCHANGED <<members, call>>
           ELSE /\ call' = [call EXCEPT ![u] = "counted"]
                /\ UNCHANGED <<members, did>>
  /\ UNCHANGED <<radar, shimVars, opVars, pageVars>>

\* join_radar_event, lines 63 to 110: the existing row, the upsert and the
\* status returned.
Sql_join_radar_event_upsert(u) ==
  /\ call[u] = "counted"
  /\ call' = [call EXCEPT ![u] = "idle"]
  /\ LET v_existing == members["radar_participants"][u]
         v_new_status == IF radar.approval THEN "PENDING" ELSE "JOINED"
     IN  IF v_existing \in {"JOINED", "PENDING"}
           THEN /\ Record("join_radar_event", u, v_existing)
                /\ UNCHANGED members
           ELSE /\ SetStatus({"radar_participants"}, u, Statuses, v_new_status)
                /\ \E chat_room_id \in {"null", "room"} :
                     Record("join_radar_event", u,
                            IF v_new_status = "JOINED" /\ chat_room_id # "null"
                              THEN "JOINED" ELSE "PENDING")
  /\ UNCHANGED <<radar, shimVars, opVars, pageVars>>

\* The tables as user u's insert meets them: a table that holds a row of
\* the user answers duplicate key.
SeenBy(u) ==
  [t \in ParticipantTables |->
     IF radar.tables[t] \in {"ok", "driftCache"} /\ members[t][u] # "NONE"
       THEN "dup" ELSE radar.tables[t]]

\* The insert of the member row by the shim of the list page, of the detail
\* page or of the invite script.
InsertMember(client, t, u, status) ==
  CASE client = "List" ->
         Call_List_insertWithColumnFallback(SeenBy(u), t, ParticipantRow("MEMBER", status), 0)
    [] client = "Det" ->
         Call_Det_insertWithColumnFallback(SeenBy(u), t, ParticipantRow("MEMBER", status), 0)
    [] OTHER ->
         Call_Script_insertWithColumnFallback(
           Inv_Ceiling, SeenBy(u), t, ParticipantRow("MEMBER", status), 0)

\* for (const table of [primaryTable, secondaryTable]): the tables the loop
\* wrote and whether one insert succeeded.  The pages go on to the second
\* table after any failure, the script after a missing-column failure.
JoinLoop(client, u, status) ==
  LET insert == [t \in ParticipantTables |-> InsertMember(client, t, u, status)]
      first == insert[PrimaryTable]
      second == insert[SecondaryTable]
      goesOn == /\ ~Succeeded(first.result)
                /\ client = "Inv" => Script_isMissingColumnError(first.result.error)
  IN  [wrote |-> {t \in {PrimaryTable} : first.wrote}
                   \union {t \in {SecondaryTable} : goesOn /\ second.wrote},
       ok |-> Succeeded(first.result) \/ (goesOn /\ Succeeded(second.result))]

\* The clients that join: the list page, the detail page, the invite script.
Clients == {"List", "Det", "Inv"}

JoinName(client) ==
  CASE client = "List" -> "List_joinRadarEvent"
    [] client = "Det" -> "Det_joinRadarEvent"
    [] OTHER -> "Inv_joinRadarEventFallback"

\* The status a client writes: the pages take it from the read of the
\* event's policy, the script writes 'JOINED'.
JoinStatus(client) ==
  IF client = "Inv" THEN "JOINED" ELSE fallbackMembershipStatus(radar.policy)

\* The direct path of joinRadarEvent (list page, detail page) and of
\* joinRadarEventFallback (invite script), after the procedure was found
\* absent.
Mem_joinRadarEvent(client, u) ==
  /\ radar.procedure = "absent"
  /\ call[u] = "idle"
  /\ LET loop == JoinLoop(client, u, JoinStatus(client))
     IN  /\ SetStatus(loop.wrote, u, {"NONE"}, JoinStatus(client))
         /\ Record(JoinName(client), u, IF loop.ok THEN JoinStatus(client) ELSE "thrown")
  /\ UNCHANGED <<radar, call, shimVars, opVars, pageVars>>

\* The loop of an update over participantTables: it stops at the first table
\* whose update returns no error, and after an error that is not about a
\* missing column, a missing relation or permission.
UpdateLoop(body) ==
  LET update == [t \in ParticipantTables |->
                   Call_Det_updateWithColumnFallback(radar.tables, t, body, 0)]
      first == update[PrimaryTable]
      second == update[SecondaryTable]
      lastError == first.result.error.message
      goesOn == /\ first.result.error # NoError
                /\ \/ Page_isMissingColumnError(lastError)
                   \/ Page_isMissingRelationError(lastError)
                   \/ Page_isPermissionError(lastError)
  IN  [wrote |-> {t \in {PrimaryTable} : first.wrote}
                   \union {t \in {SecondaryTable} : goesOn /\ second.wrote},
       ok |-> first.result.error = NoError
                \/ (goesOn /\ second.result.error = NoError)]

\* The payload of a decision.
DecisionPayload(approve) ==
  IF approve
    THEN [k \in {"status", "role", "joined_at", "left_at", "kicked_at"} |->
            CASE k = "status" -> "JOINED" [] k = "role" -> "MEMBER"
              [] k = "joined_at" -> "nowIso" [] OTHER -> "null"]
    ELSE [k \in {"status"} |-> "REJECTED"]

\* Variant: the decision matches the user's row whatever its status.
DecisionMatches_anyStatus == Statuses \ {"NONE"}

\* The matchers of a decision: radar_id, user_id, status: 'PENDING'.
DecisionMatches == {"PENDING"}

\* updateParticipantDecision of the detail page.
Mem_Det_updateParticipantDecision(u, approve) ==
  /\ call[u] = "idle"
  /\ \E actorIsHost \in BOOLEAN :
       LET loop == UpdateLoop(DecisionPayload(approve))
           nextStatus == DecisionPayload(approve)["status"]
           name == IF approve THEN "approve" ELSE "reject"
       IN  IF ~actorIsHost
             THEN Record(name, u, "thrown") /\ UNCHANGED members
             ELSE /\ SetStatus(loop.wrote, u, DecisionMatches, nextStatus)
                  /\ Record(name, u, IF loop.ok THEN "void" ELSE "thrown")
  /\ UNCHANGED <<radar, call, shimVars, opVars, pageVars>>

\* The matchers of leave: radar_id, user_id.
LeaveMatches == Statuses \ {"NONE"}

\* leaveRadarEvent of the detail page, direct path.
Mem_Det_leaveRadarEvent(u) ==
  /\ call[u] = "idle"
  /\ LET loop == UpdateLoop(LeavePayload)
     IN  /\ SetStatus(loop.wrote, u, LeaveMatches, LeavePayload["status"])
         /\ Record("Det_leaveRadarEvent", u, IF loop.ok THEN "void" ELSE "thrown")
  /\ UNCHANGED <<radar, call, shimVars, opVars, pageVars>>

\* The events: their generation, their join policy and how a client reads
\* it, their quota, and the state of their participant tables.  The
\* procedure is that of the legacy generation; where it is present no client
\* reads the policy, and where it is absent nothing reads the quota.
Radars ==
  {[source |-> g, approval |-> a, policy |-> y, max |-> m, procedure |-> p,
    tables |-> [t \in ParticipantTables |->
                  IF t = ParticipantTable(g) THEN c ELSE "ok"]] :
     g \in Generations, a \in BOOLEAN, y \in {"approval", "open", "denied", "noColumn"},
     m \in 0..MaxQuota, p \in {"present", "absent"},
     c \in {"ok", "driftCache", "denied", "missingPg"}}

InitMembers ==
  /\ NoCall
  /\ NoOperation
  /\ NoPage
  /\ radar \in {r \in Radars :
                  /\ r.policy = "approval" => r.approval
                  /\ r.policy \in {"open", "noColumn"} => ~r.approval
                  /\ r.procedure = "present" =>
                       /\ r.source = "legacy"
                       /\ r.tables[ParticipantTable("legacy")] = "ok"
                       /\ r.policy \in {"approval", "open"}
                  /\ r.procedure = "absent" => r.max = 0}
  /\ members = [t \in ParticipantTables |-> [u \in Users |-> "NONE"]]
  /\ call = [u \in Users |-> "idle"]
  /\ did = [op |-> "none", user |-> 1, was |-> [t \in ParticipantTables |-> "NONE"],
            reported |-> "none"]

NextMembers ==
  \/ \E u \in Users : Sql_join_radar_event_count(u)
  \/ \E u \in Users : Sql_join_radar_event_upsert(u)
  \/ \E client \in Clients, u \in Users : Mem_joinRadarEvent(client, u)
  \/ \E u \in Users, approve \in BOOLEAN : Mem_Det_updateParticipantDecision(u, approve)
  \/ \E u \in Users : Mem_Det_leaveRadarEvent(u)

SpecMembers == InitMembers /\ [][NextMembers]_vars

(***************************************************************************)
(* The invites.  A private radar is joined through the personal invite of  *)
(* the user: the join handlers of the two pages look the invite up, answer *)
(* it when it is still pending, and join.  The store of these operations   *)
(* holds what the lookups find (cached: the invite of the page's cached    *)
(* list; latest: the answer to the read of radar_invites; incoming: the    *)
(* invite of the list read afresh), the invite that is answered, and how   *)
(* the procedures, the tables and joinRadarEvent answer.  joinRadarEvent   *)
(* is the operation modelled above; here a call of it is one step whose    *)
(* result is an input.  A handler ends "thrown" when it shows the error.   *)
(***************************************************************************)
\* canceling statement due to statement timeout
MsgTimeout == Err(Words(<<"canceling", "statement", "due", "to", "statement", "timeout">>))

\* A row without a status.
NoStatus == ""

\* The statuses an invite row is stored with.
InviteStatuses ==
  {"PENDING", "INVITED", "REQUESTED", "ACCEPTED", "JOINED", "APPROVED", "DECLINED",
   "accepted", "PENDING ", NoStatus}

\* String.prototype.toUpperCase and trim on the stored values.
UpperText(s) == IF s = "accepted" THEN "ACCEPTED" ELSE s
TrimText(s) == IF s = "PENDING " THEN "PENDING" ELSE s

\* value?.toString().toUpperCase() || 'PENDING'
normalizeInviteStatus(value) == IF UpperText(value) = "" THEN "PENDING" ELSE UpperText(value)

\* value?.toString().trim().toUpperCase() || ''
Det_normalizeMembershipStatus(value) == UpperText(TrimText(value))

isPendingInvite(value) == normalizeInviteStatus(value) \in {"PENDING", "INVITED", "REQUESTED"}
isAcceptedInvite(value) == normalizeInviteStatus(value) \in {"ACCEPTED", "JOINED", "APPROVED"}
\* A variant that takes every status for actionable.
isActionablePersonalInviteStatus_anyStatus(value) == TRUE
isActionablePersonalInviteStatus(value) == isPendingInvite(value) \/ isAcceptedInvite(value)

normalizeRadarVisibility(value) ==
  IF UpperText(TrimText(value)) = "" THEN "PUBLIC"
  ELSE IF UpperText(TrimText(value)) \in {"PRIVATE", "PERSONAL"} THEN "PRIVATE"
  ELSE UpperText(TrimText(value))

isPrivateRadar == normalizeRadarVisibility(store.visibility) = "PRIVATE"

\* The answer to the read of the user's latest invite of the radar, and to
\* the read that follows a missing column.
InviteRead(latest) ==
  CASE latest = "none" -> Accept(NoData)
    [] latest = "denied" -> Reject("permission", NoColumn, MsgPermissionDenied("radar_invites"))
    [] latest = "missingCache" ->
         Reject("missing_relation", NoColumn, MsgSchemaCacheTable("radar_invites"))
    [] latest = "noSource" -> Reject("missing_column", "source", MsgColumnMissing("source"))
    [] latest = "timeout" -> Reject("other", NoColumn, MsgTimeout)
    [] OTHER -> Accept(latest)

InviteReadAgain(latest) == IF latest = "noSource" THEN Accept("PENDING") ELSE InviteRead(latest)

LatestAnswers == InviteStatuses \union {"none", "denied", "missingCache", "noSource", "timeout"}

\* { status: nextStatus, responded_at, updated_at }
RespondPayload(accept) ==
  [k \in {"status", "responded_at", "updated_at"} |->
     IF k = "status" THEN (IF accept THEN "ACCEPTED" ELSE "DECLINED") ELSE "nowIso"]

\* The error joinRadarEvent throws, if it throws.
JoinThrown(join) ==
  CASE join = "duplicate" -> MsgDuplicate
    [] join = "failed" -> MsgQuotaFull
    [] OTHER -> NoError

JoinResults == {"JOINED", "PENDING", "duplicate", "failed"}

\* The call of joinRadarEvent, as the log keeps it.
Joined(join) ==
  [kind |-> "join", target |-> JoinProcedure(source),
   outcome |-> IF JoinThrown(join) = NoError THEN "accepted" ELSE join]

\* try { joinStatus = await joinRadarEvent(...) } catch (error) { if
\* (!isDuplicateError(message)) throw error; }
JoinSwallowingDuplicate ==
  IF JoinThrown(store.join) = NoError
    THEN End(Returned(store.join), <<Joined(store.join)>>)
  ELSE IF Page_isDuplicateError(JoinThrown(store.join).message)
    THEN End(Returned("JOINED"), <<Joined(store.join)>>)
  ELSE End(Threw(JoinThrown(store.join)), <<Joined(store.join)>>)

MsgNoActiveInvite ==
  <<"Anda", "tidak", "memiliki", "undangan", "aktif", "untuk", "radar", "private", "ini.">>
MsgInviteInactive == <<"Undangan", "private", "Anda", "sudah", "tidak", "aktif.">>

\* handleJoin of the detail page, with acceptPersonalRadarInvite and
\* respondInviteById.
Det_handleJoin ==
  /\ op = "Det_handleJoin" /\ pc # "done"
  /\ UNCHANGED <<shimVars, eventGen>>
  /\ LET first == InviteRead(store.latest)
         again == first.error # NoError /\ Page_isMissingColumnError(first.error.message)
         final == IF again THEN InviteReadAgain(store.latest) ELSE first
         reads == IF again THEN <<Sent("read", "radar_invites", first),
                                  Sent("read", "radar_invites", final)>>
                  ELSE <<Sent("read", "radar_invites", first)>>
         status == Det_normalizeMembershipStatus(final.data)
         rpcV2 == RpcAnswer(store.respondV2, "radar_v2_respond_invite")
         rpcLegacy == RpcAnswer(store.respondLegacy, "respond_radar_invite")
         updateResult == StoreAnswer(store.tables, "radar_invites", RespondPayload(TRUE), FALSE)
     IN
     CASE pc = "start" ->
            IF ~isPrivateRadar THEN Goto("join", <<>>)
            ELSE IF final.error # NoError
              THEN IF /\ ~Page_isPermissionError(final.error.message)
                      /\ ~Page_isMissingRelationError(final.error.message)
                     THEN End(Threw(final.error), reads)
                     ELSE End(ThrewText(MsgNoActiveInvite), reads)
            ELSE IF final.data = NoData THEN End(ThrewText(MsgNoActiveInvite), reads)
            ELSE IF status \in {"ACCEPTED", "JOINED", "APPROVED"} THEN Goto("join", reads)
            ELSE IF status \notin {"PENDING", "INVITED", "REQUESTED"}
              THEN End(ThrewText(MsgInviteInactive), reads)
            ELSE Goto("respondV2", reads)
       [] pc = "respondV2" ->
            IF rpcV2.error = NoError
              THEN Goto("join", <<Sent("rpc", "radar_v2_respond_invite", rpcV2)>>)
            ELSE IF /\ ~Page_isFunctionMissingError(rpcV2.error.message)
                    /\ ~Page_isPermissionError(rpcV2.error.message)
                    /\ ~Page_isNotAuthenticatedError(rpcV2.error.message)
              THEN End(Threw(rpcV2.error), <<Sent("rpc", "radar_v2_respond_invite", rpcV2)>>)
            ELSE Goto("respondLegacy", <<Sent("rpc", "radar_v2_respond_invite", rpcV2)>>)
       [] pc = "respondLegacy" ->
            IF rpcLegacy.error = NoError
              THEN Goto("join", <<Sent("rpc", "respond_radar_invite", rpcLegacy)>>)
            ELSE IF /\ ~Page_isFunctionMissingError(rpcLegacy.error.message)
                    /\ ~Page_isPermissionError(rpcLegacy.error.message)
                    /\ ~Page_isNotAuthenticatedError(rpcLegacy.error.message)
              THEN End(Threw(rpcLegacy.error), <<Sent("rpc", "respond_radar_invite", rpcLegacy)>>)
            ELSE Goto("respondUpdate", <<Sent("rpc", "respond_radar_invite", rpcLegacy)>>)
       [] pc = "respondUpdate" ->
            IF /\ updateResult.error # NoError
               /\ ~Page_isMissingColumnError(updateResult.error.message)
               /\ ~Page_isPermissionError(updateResult.error.message)
              THEN End(Threw(updateResult.error), <<Sent("update", "radar_invites", updateResult)>>)
              ELSE Goto("join", <<Sent("update", "radar_invites", updateResult)>>)
       [] OTHER -> JoinSwallowingDuplicate

\* getLatestPersonalInviteForRadar: the reads it sends and the status of
\* the invite it returns ("none" for null).
getLatestPersonalInviteForRadar ==
  LET first == InviteRead(store.latest)
      again == /\ first.error # NoError
               /\ ~Page_isPermissionError(first.error.message)
               /\ Page_isMissingColumnError(first.error.message)
      final == IF again THEN InviteReadAgain(store.latest) ELSE first
      row == IF final.error = NoError THEN final.data ELSE NoData
  IN  [reads |-> IF again THEN <<Sent("read", "radar_invites", first),
                                 Sent("read", "radar_invites", final)>>
                 ELSE <<Sent("read", "radar_invites", first)>>,
       status |-> IF row # NoData /\ isActionablePersonalInviteStatus(row)
                    THEN normalizeInviteStatus(row) ELSE "none"]

\* The invite the list page acts on: of the cached list, else the latest
\* row, else of the list read afresh.
actionableInvite ==
  IF store.cached # "none"
    THEN [from |-> "cached", status |-> store.cached]
  ELSE IF getLatestPersonalInviteForRadar.status # "none"
    THEN [from |-> "latest", status |-> getLatestPersonalInviteForRadar.status]
  ELSE IF store.incoming # "none" /\ isActionablePersonalInviteStatus(store.incoming)
    THEN [from |-> "incoming", status |-> store.incoming]
  ELSE [from |-> "none", status |-> "none"]

\* The invite that is answered: the one the handler found (an invite built
\* from the latest row carries no notification), or the one passed in.
TheInvite ==
  IF op = "List_handleJoinRadar" /\ actionableInvite.from = "latest"
    THEN [store.invite EXCEPT !.notificationId = FALSE]
    ELSE store.invite

Accepting == IF op = "List_handleJoinRadar" THEN TRUE ELSE store.accept

useV2Respond == source = "v2" \/ UpperText(TrimText(TheInvite.source)) = "PERSONAL"

\* What respondToRadarInvite returns: the status of the join, the warning
\* of a join that threw, or neither.
RespondReturn ==
  IF ~(Accepting /\ TheInvite.hasRadar) THEN Returned("null")
  ELSE IF JoinThrown(store.join) = NoError THEN Returned(store.join)
  ELSE Returned("joinWarning")

\* respondToRadarInvite goes on after its answer to the invite, after
\* markNotificationRead, and after the join.
AfterJoin(entries) ==
  IF TheInvite.inviterId THEN Goto("notify", entries) ELSE End(RespondReturn, entries)

AfterMark(entries) ==
  IF Accepting /\ TheInvite.hasRadar THEN Goto("respondJoin", entries) ELSE AfterJoin(entries)

AfterRespond(entries) ==
  IF TheInvite.notificationId THEN Goto("markRead", entries) ELSE AfterMark(entries)

\* The steps of respondToRadarInvite of the list page.
List_respondSteps ==
  LET rpcV2 == RpcAnswer(store.respondV2, "radar_v2_respond_invite")
      rpcLegacy == RpcAnswer(store.respondLegacy, "respond_radar_invite")
      updateResult == StoreAnswer(store.tables, "radar_invites",
                                  RespondPayload(Accepting), FALSE)
      notifyResult == Call_List_insertWithColumnFallback(
                        store.tables, "notifications", NotificationRow, 0)
  IN
  CASE pc = "respondV2" ->
         IF rpcV2.error = NoError
           THEN AfterRespond(<<Sent("rpc", "radar_v2_respond_invite", rpcV2)>>)
         ELSE IF /\ ~Page_isFunctionMissingError(rpcV2.error.message)
                 /\ ~Page_isPermissionError(rpcV2.error.message)
                 /\ ~Page_isNotAuthenticatedError(rpcV2.error.message)
           THEN End(Threw(rpcV2.error), <<Sent("rpc", "radar_v2_respond_invite", rpcV2)>>)
         ELSE Goto("respondLegacy", <<Sent("rpc", "radar_v2_respond_invite", rpcV2)>>)
    [] pc = "respondLegacy" ->
         IF rpcLegacy.error = NoError
           THEN AfterRespond(<<Sent("rpc", "respond_radar_invite", rpcLegacy)>>)
         ELSE IF /\ ~Page_isFunctionMissingError(rpcLegacy.error.message)
                 /\ ~Page_isPermissionError(rpcLegacy.error.message)
                 /\ ~Page_isNotAuthenticatedError(rpcLegacy.error.message)
           THEN End(Threw(rpcLegacy.error), <<Sent("rpc", "respond_radar_invite", rpcLegacy)>>)
         ELSE Goto("respondUpdate", <<Sent("rpc", "respond_radar_invite", rpcLegacy)>>)
    [] pc = "respondUpdate" ->
         IF /\ updateResult.error # NoError
            /\ ~Page_isPermissionError(updateResult.error.message)
            /\ ~Page_isMissingColumnError(updateResult.error.message)
           THEN End(Threw(updateResult.error), <<Sent("update", "radar_invites", updateResult)>>)
         ELSE IF updateResult.error # NoError /\ ~TheInvite.notificationId
           THEN End(ThrewText(<<"Undangan", "tidak", "dapat", "diperbarui.">>),
                    <<Sent("update", "radar_invites", updateResult)>>)
         ELSE AfterRespond(<<Sent("update", "radar_invites", updateResult)>>)
    [] pc = "markRead" -> AfterMark(<<Sent("update", "notifications", Accept("row"))>>)
    [] pc = "respondJoin" -> AfterJoin(<<Joined(store.join)>>)
    [] OTHER ->
         IF /\ notifyResult.result.error # NoError
            /\ ~Page_isMissingColumnError(notifyResult.result.error.message)
           THEN End(Threw(notifyResult.result.error),
                    <<Called("insert", "notifications", notifyResult)>>)
           ELSE End(RespondReturn, <<Called("insert", "notifications", notifyResult)>>)

\* respondToRadarInvite of the list page, for an invite that has an id.
List_respondToRadarInvite ==
  /\ op = "List_respondToRadarInvite" /\ pc # "done"
  /\ UNCHANGED <<shimVars, eventGen>>
  /\ List_respondSteps

\* The handler goes on with the invite it found.
Decide(entries) ==
  IF isPendingInvite(actionableInvite.status)
    THEN Goto(IF useV2Respond THEN "respondV2" ELSE "respondLegacy", entries)
    ELSE Goto("privateJoin", entries)

\* handleJoinRadar of the list page.
List_handleJoinRadar ==
  /\ op = "List_handleJoinRadar" /\ pc # "done"
  /\ UNCHANGED <<shimVars, eventGen>>
  /\ CASE pc = "start" ->
            IF ~isPrivateRadar THEN Goto("join", <<>>)
            ELSE IF actionableInvite.from = "cached" THEN Decide(<<>>)
            ELSE IF actionableInvite.from = "latest"
              THEN Decide(getLatestPersonalInviteForRadar.reads)
            ELSE Goto("incoming", getLatestPersonalInviteForRadar.reads)
       [] pc = "incoming" ->
            IF actionableInvite.from = "incoming"
              THEN Decide(<<Sent("read", "radar_invites", Accept(store.incoming))>>)
              ELSE End(ThrewText(MsgNoActiveInvite),
                       <<Sent("read", "radar_invites", Accept(store.incoming))>>)
       [] pc = "privateJoin" -> JoinSwallowingDuplicate
       [] pc = "join" ->
            IF JoinThrown(store.join) = NoError
              THEN End(Returned(store.join), <<Joined(store.join)>>)
              ELSE End(Threw(JoinThrown(store.join)), <<Joined(store.join)>>)
       [] OTHER -> List_respondSteps

\* The answer to the read of a user's participant row: no row, a refusal,
\* or the row with its status.
MemberRead(member, t) ==
  CASE member = "none" -> Accept(NoData)
    [] member = "denied" -> Reject("permission", NoColumn, MsgPermissionDenied(t))
    [] OTHER -> Accept(member)

\* The answer to the read of the event with its invite policy, and to the
\* read without the policy that follows a missing column.
EventRead(event, t) ==
  CASE event = "none" -> Accept(NoData)
    [] event = "denied" -> Reject("permission", NoColumn, MsgPermissionDenied(t))
    [] event = "timeout" -> Reject("other", NoColumn, MsgTimeout)
    [] event = "noPolicyColumn" ->
         Reject("missing_column", "allow_member_invite", MsgColumnMissing("allow_member_invite"))
    [] OTHER -> Accept(event)

EventReadAgain(event, t) ==
  IF event = "noPolicyColumn" THEN Accept("memberForbidden") ELSE EventRead(event, t)

List_normalizeMembershipStatus(value) ==
  IF value = NoData THEN "" ELSE UpperText(TrimText(value))
isJoinedMembershipStatus(status) == status \in {"JOINED", "HOST", "MEMBER", "APPROVED"}
isPendingMembershipStatus(status) == status \in {"PENDING", "REQUESTED", "INVITED"}

\* { inviter_id, invitee_id, radar_id, source, status, note }
GroupInviteRow ==
  [k \in {"inviter_id", "invitee_id", "radar_id", "source", "status", "note"} |->
     CASE k = "source" -> "RADAR_GROUP" [] k = "status" -> "PENDING"
       [] OTHER -> "value of " \o k]

\* sendRadarInvite goes on after the checks of the inviter.
AfterInviter(entries) == Goto(IF source = "v2" THEN "rpc" ELSE "existing", entries)

\* sendRadarInvite of the list page.  The inviter and the invitee have a
\* participant row in the table of the event's generation or none.
List_sendRadarInvite ==
  /\ op = "List_sendRadarInvite" /\ pc # "done"
  /\ UNCHANGED <<shimVars, eventGen>>
  /\ LET eventTable == EventTable(source)
         eventWithPolicy == EventRead(store.event, eventTable)
         again == /\ eventWithPolicy.error # NoError
                  /\ Page_isMissingColumnError(eventWithPolicy.error.message)
         final == IF again THEN EventReadAgain(store.event, eventTable) ELSE eventWithPolicy
         reads == IF again THEN <<Sent("read", eventTable, eventWithPolicy),
                                  Sent("read", eventTable, final)>>
                  ELSE <<Sent("read", eventTable, eventWithPolicy)>>
         inviter == MemberRead(store.inviterMember, ParticipantTable(source))
         inviterStatus == List_normalizeMembershipStatus(inviter.data)
         inviterReads ==
           <<Sent("read", ParticipantTable(source), inviter)>>
           \o IF /\ inviter.error = NoError /\ inviter.data # NoData
                 /\ (isJoinedMembershipStatus(inviterStatus) \/ inviterStatus = "")
                THEN <<>>
                ELSE <<Sent("read", ParticipantTable(OtherGen(source)), Accept(NoData))>>
         rpcInvite == RpcAnswer(store.rpc, "radar_v2_send_invite")
         existingInvite == InviteRead(store.existing)
         invitee == MemberRead(store.inviteeMember, ParticipantTable(source))
         memberStatus == List_normalizeMembershipStatus(invitee.data)
         inviteBody == IF pc = "invite" THEN GroupInviteRow
                       ELSE Delete(GroupInviteRow, "radar_id")
         inviteInsert == Call_List_insertWithColumnFallback(
                           store.tables, "radar_invites", inviteBody, 0)
         notificationResult == Call_List_insertWithColumnFallback(
                                 store.tables, "notifications", NotificationRow, 0)
     IN
     CASE pc = "start" ->
            IF isPrivateRadar
              THEN End(ThrewText(<<"Radar", "private", "tidak", "mendukung", "undangan",
                                   "grup.">>), <<>>)
            ELSE IF final.error # NoError /\ ~Page_isPermissionError(final.error.message)
              THEN End(Threw(final.error), reads)
            ELSE IF final.error # NoError \/ final.data \in {NoData, "host"}
              THEN AfterInviter(reads)
            ELSE IF final.data # "memberAllowed"
              THEN End(ThrewText(<<"Host", "tidak", "mengizinkan", "undangan", "peserta",
                                   "pada", "radar", "ini.">>), reads)
            ELSE Goto("inviter", reads)
       [] pc = "inviter" ->
            IF /\ inviter.error # NoError
               /\ ~Page_isMissingColumnError(inviter.error.message)
               /\ ~Page_isPermissionError(inviter.error.message)
              THEN End(Threw(inviter.error), <<Sent("read", ParticipantTable(source), inviter)>>)
            ELSE IF /\ inviter.error = NoError /\ inviter.data # NoData
                    /\ (isJoinedMembershipStatus(inviterStatus) \/ inviterStatus = "")
              THEN AfterInviter(inviterReads)
            ELSE End(ThrewText(<<"Anda", "harus", "bergabung", "dulu", "ke", "radar",
                                 "sebelum", "mengundang", "user", "lain.">>), inviterReads)
       [] pc = "rpc" ->
            IF rpcInvite.error = NoError
              THEN End(Returned("void"), <<Sent("rpc", "radar_v2_send_invite", rpcInvite)>>)
            ELSE IF /\ ~Page_isFunctionMissingError(rpcInvite.error.message)
                    /\ ~Page_isPermissionError(rpcInvite.error.message)
                    /\ ~Page_isNotAuthenticatedError(rpcInvite.error.message)
              THEN End(Threw(rpcInvite.error), <<Sent("rpc", "radar_v2_send_invite", rpcInvite)>>)
            ELSE Goto("existing", <<Sent("rpc", "radar_v2_send_invite", rpcInvite)>>)
       [] pc = "existing" ->
            IF existingInvite.error = NoError /\ existingInvite.data # NoData
               /\ isPendingInvite(existingInvite.data)
              THEN End(ThrewText(<<"Undangan", "untuk", "user", "ini", "sudah", "dikirim.">>),
                       <<Sent("read", "radar_invites", existingInvite)>>)
            ELSE IF existingInvite.error = NoError /\ existingInvite.data # NoData
                    /\ isAcceptedInvite(existingInvite.data)
              THEN End(ThrewText(<<"User", "ini", "sudah", "menerima", "undangan",
                                   "sebelumnya.">>),
                       <<Sent("read", "radar_invites", existingInvite)>>)
            ELSE Goto("invitee", <<Sent("read", "radar_invites", existingInvite)>>)
       [] pc = "invitee" ->
            IF invitee.error # NoError
              THEN IF /\ ~Page_isMissingColumnError(invitee.error.message)
                      /\ ~Page_isPermissionError(invitee.error.message)
                     THEN End(Threw(invitee.error),
                              <<Sent("read", ParticipantTable(source), invitee)>>)
                     ELSE Goto("invite",
                               <<Sent("read", ParticipantTable(source), invitee),
                                 Sent("read", ParticipantTable(OtherGen(source)),
                                      Accept(NoData))>>)
            ELSE IF invitee.data = NoData
              THEN Goto("invite",
                        <<Sent("read", ParticipantTable(source), invitee),
                          Sent("read", ParticipantTable(OtherGen(source)), Accept(NoData))>>)
            ELSE IF isJoinedMembershipStatus(memberStatus) \/ memberStatus = ""
              THEN End(ThrewText(<<"User", "ini", "sudah", "menjadi", "peserta", "radar.">>),
                       <<Sent("read", ParticipantTable(source), invitee)>>)
            ELSE IF isPendingMembershipStatus(memberStatus)
              THEN End(ThrewText(<<"User", "ini", "sudah", "memiliki", "permintaan/join",
                                   "status", "pending.">>),
                       <<Sent("read", ParticipantTable(source), invitee)>>)
            ELSE Goto("invite",
                      <<Sent("read", ParticipantTable(source), invitee),
                        Sent("read", ParticipantTable(OtherGen(source)), Accept(NoData))>>)
       [] pc \in {"invite", "inviteNoRadar"} ->
            IF /\ pc = "invite"
               /\ inviteInsert.result.error # NoError
               /\ Page_isForeignKeyError(inviteInsert.result.error.message)
              THEN Goto("inviteNoRadar", <<Called("insert", "radar_invites", inviteInsert)>>)
            ELSE IF inviteInsert.result.duplicate
              THEN End(ThrewText(<<"User", "ini", "sudah", "memiliki", "undangan", "aktif",
                                   "untuk", "radar", "tersebut.">>),
                       <<Called("insert", "radar_invites", inviteInsert)>>)
            ELSE IF inviteInsert.result.error # NoError
              THEN IF Page_isPermissionError(inviteInsert.result.error.message)
                     THEN End(ThrewText(<<"Tidak", "punya", "izin", "mengirim", "undangan",
                                          "pada", "radar", "ini.">>),
                              <<Called("insert", "radar_invites", inviteInsert)>>)
                     ELSE End(Threw(inviteInsert.result.error),
                              <<Called("insert", "radar_invites", inviteInsert)>>)
            ELSE Goto("notify", <<Called("insert", "radar_invites", inviteInsert)>>)
       [] OTHER ->
            IF /\ notificationResult.result.error # NoError
               /\ ~Page_isMissingColumnError(notificationResult.result.error.message)
              THEN End(Threw(notificationResult.result.error),
                       <<Called("insert", "notifications", notificationResult)>>)
              ELSE End(Returned("void"),
                       <<Called("insert", "notifications", notificationResult)>>)

SendStore(visibility, event, inviterMember, rpc, existing, inviteeMember, invites,
          notifications) ==
  [visibility |-> visibility, event |-> event, inviterMember |-> inviterMember,
   rpc |-> rpc, existing |-> existing, inviteeMember |-> inviteeMember,
   tables |-> Tables("ok", "ok", "ok", "ok", invites, notifications)]

SendStores ==
  {SendStore("PRIVATE", "host", "none", "created", "none", "none", "ok", "ok")}
  \union
  {SendStore("PUBLIC", e, "none", r, x, m, i, n) :
     e \in {"host", "memberForbidden", "noPolicyColumn", "denied", "timeout", "none"},
     r \in {"created", "absentCache", "quotaFull"},
     x \in {"none", "PENDING", "ACCEPTED", "DECLINED", "denied"},
     m \in {"none", "JOINED", "PENDING", "LEFT", "denied"},
     i \in InviteTableStates, n \in {"ok", "denied"}}
  \union
  {SendStore("PUBLIC", "memberAllowed", a, "absentCache", "none", "none", i, n) :
     a \in {"none", "JOINED", "PENDING", "denied"}, i \in InviteTableStates,
     n \in {"ok", "denied"}}

\* The stores of the invite operations.
Visibilities == {"PRIVATE", "PERSONAL", "PUBLIC"}

Invites ==
  [notificationId : BOOLEAN, inviterId : BOOLEAN, source : {"PERSONAL", "RADAR_GROUP"},
   hasRadar : BOOLEAN]

RespondAnswers == {"created", "absentCache", "denied", "quotaFull"}

InviteStore(visibility, cached, latest, incoming, invite, accept, v2, legacy, invites,
            notifications, join) ==
  [visibility |-> visibility, cached |-> cached, latest |-> latest, incoming |-> incoming,
   invite |-> invite, accept |-> accept, respondV2 |-> v2, respondLegacy |-> legacy,
   tables |-> Tables("ok", "ok", "ok", "ok", invites, notifications), join |-> join]

InviteStores(o) ==
  CASE o = "List_handleJoinRadar" ->
         {InviteStore(v, c, l, i, [notificationId |-> n, inviterId |-> TRUE,
                                   source |-> "PERSONAL", hasRadar |-> TRUE],
                      TRUE, r, "denied", u, "ok", j) :
            v \in Visibilities, c \in {"none", "PENDING", "ACCEPTED"}, l \in LatestAnswers,
            i \in {"none", "PENDING", "APPROVED", "DECLINED", NoStatus},
            n \in BOOLEAN, r \in {"created", "absentCache", "quotaFull"},
            u \in {"ok", "denied"}, j \in JoinResults}
    [] o = "Det_handleJoin" ->
         {InviteStore(v, "none", l, "none", [notificationId |-> FALSE, inviterId |-> TRUE,
                                             source |-> "PERSONAL", hasRadar |-> TRUE],
                      TRUE, r, s, u, "ok", j) :
            v \in Visibilities, l \in LatestAnswers,
            r \in RespondAnswers, s \in RespondAnswers,
            u \in {"ok", "denied", "missingCache"}, j \in JoinResults}
    [] o = "List_sendRadarInvite" -> SendStores
    [] o = "List_createPersonalRadarInvite" -> Deployments(o)
    [] OTHER ->
         {InviteStore("PUBLIC", "none", "none", "none", i, a, r, s, u, n, j) :
            i \in Invites, a \in BOOLEAN, r \in RespondAnswers, s \in RespondAnswers,
            u \in {"ok", "denied", "missingCache"}, n \in {"ok", "denied"},
            j \in {"JOINED", "failed"}}

JoinHandlers == {"List_handleJoinRadar", "Det_handleJoin"}

\* The operations that notify the other user of what they wrote.
NotifyingOps ==
  {"List_createPersonalRadarInvite", "List_sendRadarInvite", "List_respondToRadarInvite"}

InviteOps == JoinHandlers \union NotifyingOps

InitInvites ==
  /\ NoCall
  /\ NoMembers
  /\ NoPage
  /\ op \in InviteOps
  /\ source \in IF op = "List_createPersonalRadarInvite" THEN {"none"} ELSE Generations
  /\ store \in InviteStores(op)
  /\ pc = CASE op = "List_createPersonalRadarInvite" -> "rpc"
            [] op = "List_respondToRadarInvite" ->
                 IF useV2Respond THEN "respondV2" ELSE "respondLegacy"
            [] OTHER -> "start"
  /\ log = <<>>
  /\ eventGen = "none"
  /\ outcome = <<>>

NextInvites ==
  \/ List_handleJoinRadar
  \/ Det_handleJoin
  \/ List_respondToRadarInvite
  \/ List_sendRadarInvite
  \/ List_createPersonalRadarInvite

SpecInvites == InitInvites /\ [][NextInvites]_vars

(***************************************************************************)
(* The deep-link intents of the list page.  /radar?openCreate=1 and        *)
(* /radar?openCheckin=1 ask the page to open a dialog; an effect of the    *)
(* page opens it and notes in a ref that the intent is handled.  The page  *)
(* stays mounted throughout: its query, what it has loaded and its dialogs *)
(* change, its refs live on.  createOpened and checkinOpened count the     *)
(* times an intent has opened its dialog.                                  *)
(***************************************************************************)
MaxOpens == 2

\* hasHandledOpenCreateQueryRef.current
CreateIntentHandled_never == FALSE
CreateIntentHandled == page.hasHandledOpenCreateQueryRef

\* hasHandledOpenCheckInQueryRef.current
CheckInIntentHandled == page.hasHandledOpenCheckInQueryRef

\* useEffect(() => { if (handled) return; if (!openCreateFromQuery) return;
\* if (!canCreateRadar) return; handled = true; setIsCreateDialogOpen(true) })
Effect_openCreate ==
  /\ page # <<>>
  /\ ~CreateIntentHandled
  /\ page.openCreateFromQuery
  /\ page.canCreateRadar
  /\ page.createOpened < MaxOpens
  /\ page' = [page EXCEPT !.hasHandledOpenCreateQueryRef = TRUE,
                          !.isCreateDialogOpen = TRUE,
                          !.createOpened = @ + 1]
  /\ UNCHANGED <<shimVars, opVars, memberVars, checkins, likes>>

\* The effect of openCheckin: with an active check-in the intent is noted and
\* nothing opens; else the prefill starts, and opens the dialog at once when
\* it has nothing to await.
Effect_openCheckin ==
  /\ page # <<>>
  /\ ~CheckInIntentHandled
  /\ page.openCheckinFromQuery
  /\ page.checkinOpened < MaxOpens
  /\ page' = IF page.activeCheckIn
               THEN [page EXCEPT !.hasHandledOpenCheckInQueryRef = TRUE]
             ELSE IF page.needsHierarchy
               THEN [page EXCEPT !.hasHandledOpenCheckInQueryRef = TRUE,
                                 !.prefill = "awaiting"]
             ELSE [page EXCEPT !.hasHandledOpenCheckInQueryRef = TRUE,
                               !.isCheckInDialogOpen = TRUE,
                               !.checkinOpened = @ + 1]
  /\ UNCHANGED <<shimVars, opVars, memberVars, checkins, likes>>

\* getChurchHierarchyIds resolves: if (!isMounted) return; ...;
\* setIsCheckInDialogOpen(true)
Prefill_resolves ==
  /\ page # <<>>
  /\ page.prefill # "none"
  /\ page' = IF page.prefill = "awaiting"
               THEN [page EXCEPT !.prefill = "none",
                                 !.isCheckInDialogOpen = TRUE,
                                 !.checkinOpened = @ + 1]
               ELSE [page EXCEPT !.prefill = "none"]
  /\ UNCHANGED <<shimVars, opVars, memberVars, checkins, likes>>

\* A dependency of the effects changes (the query, the profile, the churches,
\* the active check-in): the cleanup of the check-in effect runs (isMounted =
\* false) when the dependency is one of its own.
CheckInDeps == {"openCheckinFromQuery", "activeCheckIn", "needsHierarchy"}
Deps == CheckInDeps \union {"openCreateFromQuery", "canCreateRadar"}

Rerender(dep) ==
  /\ page # <<>>
  /\ page' = [page EXCEPT ![dep] = ~@,
                          !.prefill = IF dep \in CheckInDeps /\ @ = "awaiting"
                                        THEN "cancelled" ELSE @]
  /\ UNCHANGED <<shimVars, opVars, memberVars, checkins, likes>>

\* The user opens or closes a dialog: onOpenChange, the buttons of the page.
Dialogs == {"isCreateDialogOpen", "isCheckInDialogOpen"}

User_setsDialog(dialog, open) ==
  /\ page # <<>>
  /\ page[dialog] # open
  /\ page' = [page EXCEPT ![dialog] = open]
  /\ UNCHANGED <<shimVars, opVars, memberVars, checkins, likes>>

\* The page as it mounts.
InitPage ==
  /\ NoCall
  /\ NoOperation
  /\ NoMembers
  /\ checkins = <<>>
  /\ likes = <<>>
  /\ \E query \in [Deps -> BOOLEAN] :
       page = [openCreateFromQuery |-> query["openCreateFromQuery"],
               openCheckinFromQuery |-> query["openCheckinFromQuery"],
               canCreateRadar |-> query["canCreateRadar"],
               activeCheckIn |-> query["activeCheckIn"],
               needsHierarchy |-> query["needsHierarchy"],
               hasHandledOpenCreateQueryRef |-> FALSE,
               hasHandledOpenCheckInQueryRef |-> FALSE,
               isCreateDialogOpen |-> FALSE,
               isCheckInDialogOpen |-> FALSE,
               prefill |-> "none",
               createOpened |-> 0,
               checkinOpened |-> 0]

NextPage ==
  \/ Effect_openCreate
  \/ Effect_openCheckin
  \/ Prefill_resolves
  \/ \E dep \in Deps : Rerender(dep)
  \/ \E dialog \in Dialogs, open \in BOOLEAN : User_setsDialog(dialog, open)

SpecPage == InitPage /\ [][NextPage]_vars

\* The page as React runs it: an effect whose dependencies changed runs after
\* the render, and the hierarchy lookup of the prefill answers.
SpecPageLive ==
  /\ InitPage
  /\ [][NextPage]_vars
  /\ WF_vars(Effect_openCreate)
  /\ WF_vars(Effect_openCheckin)
  /\ WF_vars(Prefill_resolves)

(***************************************************************************)
(* The check-ins of one user.  checkins holds the status of each of the    *)
(* user's rows in mass_checkins and mass_checkins_v2, in the order of their*)
(* creation ("none" in a table that has no status column).  A check-in     *)
(* first archives the ACTIVE rows of both tables and then creates the new  *)
(* row.  The store says how each table answers an update and an insert,    *)
(* and how radar_v2_set_checkin answers.                                   *)
(***************************************************************************)
CheckinTables == {"mass_checkins", "mass_checkins_v2"}

\* The answer to an update of the check-in rows of table t, by status
\* (.eq('status', 'ACTIVE')) or by id.
CheckinUpdateAnswer(c, t, body, byStatus) ==
  CASE c = "missingPg" -> Reject("missing_relation", NoColumn, MsgRelationMissing(t))
    [] c = "denied" -> Reject("permission", NoColumn, MsgPermissionDenied(t))
    [] c = "timeout" -> Reject("other", NoColumn, MsgTimeout)
    [] c = "noStatus" /\ In("status", body) ->
         Reject("missing_column", "status", MsgColumnOfRelation("status", t))
    [] c = "noStatus" /\ byStatus ->
         Reject("missing_column", "status", MsgColumnMissing("status"))
    [] c = "enumArchived" /\ StatusIs(body, "ARCHIVED") ->
         Reject("enum", NoColumn, MsgEnum("ARCHIVED"))
    [] c = "enumBoth" /\ In("status", body) ->
         Reject("enum", NoColumn, MsgEnum(body["status"]))
    [] c = "driftCache" /\ In("archived_at", body) ->
         Reject("missing_column", "archived_at", MsgSchemaCacheColumn("archived_at", t))
    [] OTHER -> Accept("row")

UpdateStates ==
  {"ok", "denied", "timeout", "noStatus", "enumArchived", "enumBoth", "driftCache",
   "missingPg"}

\* The answer to the insert of a check-in row into table t.
CheckinInsertAnswer(update, insert, t, body) ==
  CASE insert = "denied" -> Reject("permission", NoColumn, MsgRls(t))
    [] insert = "missingPg" \/ update = "missingPg" ->
         Reject("missing_relation", NoColumn, MsgRelationMissing(t))
    [] update = "noStatus" /\ In("status", body) ->
         Reject("missing_column", "status", MsgColumnOfRelation("status", t))
    [] OTHER -> Accept("row")

\* What a finished loop leaves: its result, whether the store accepted a
\* request of it, and the body of its last request.
LeftBody(r, wrote, body) ==
  [result |-> r, wrote |-> wrote, body |-> body]

RECURSIVE Call_List_archiveByStatus(_, _, _, _)
Call_List_archiveByStatus(c, t, body, n) ==
  LET res == CheckinUpdateAnswer(c, t, body, TRUE)
      out == List_archiveByStatus_body(body, res)
  IN  IF n >= List_ArchiveCeiling
        THEN LeftBody(PageResult(res.error, NoData), res.class = "accept", body)
      ELSE IF out.done THEN LeftBody(out.result, res.class = "accept", body)
      ELSE Call_List_archiveByStatus(c, t, out.working, n + 1)

RECURSIVE Call_List_archiveLatestRow(_, _, _, _)
Call_List_archiveLatestRow(c, t, body, n) ==
  LET res == CheckinUpdateAnswer(c, t, body, FALSE)
      out == List_archiveLatestRow_body(body, res)
  IN  IF n >= List_ArchiveCeiling THEN LeftBody(PageResult(NoError, NoData), FALSE, body)
      ELSE IF out.done THEN LeftBody(out.result, res.class = "accept", body)
      ELSE Call_List_archiveLatestRow(c, t, out.working, n + 1)

RECURSIVE Call_Flow_archiveCheckInsByUser(_, _, _, _)
Call_Flow_archiveCheckInsByUser(c, t, body, n) ==
  LET res == CheckinUpdateAnswer(c, t, body, TRUE)
      out == Flow_archiveCheckInsByUser_body(body, res)
  IN  IF n >= Flow_Ceiling THEN LeftBody(Flow_archiveExhausted(t), FALSE, body)
      ELSE IF out.done THEN LeftBody(out.result, res.class = "accept", body)
      ELSE Call_Flow_archiveCheckInsByUser(c, t, out.working, n + 1)

RECURSIVE Call_List_checkinInsert(_, _, _, _, _)
Call_List_checkinInsert(update, insert, t, body, n) ==
  LET res == CheckinInsertAnswer(update, insert, t, body)
      out == List_insertWithColumnFallback_body(body, res)
  IN  IF n >= List_Ceiling THEN LeftBody(List_insertExhausted(t), FALSE, body)
      ELSE IF out.done THEN LeftBody(out.result, res.class = "accept", body)
      ELSE Call_List_checkinInsert(update, insert, t, out.working, n + 1)

RECURSIVE Call_Flow_checkinInsert(_, _, _, _, _)
Call_Flow_checkinInsert(update, insert, t, body, n) ==
  LET res == CheckinInsertAnswer(update, insert, t, body)
      out == Script_insertWithColumnFallback_body(body, res)
  IN  IF n >= Flow_Ceiling THEN LeftBody(Script_insertExhausted(t), FALSE, body)
      ELSE IF out.done THEN LeftBody(out.result, res.class = "accept", body)
      ELSE Call_Flow_checkinInsert(update, insert, t, out.working, n + 1)

\* { user_id, church_id, ..., status: 'ACTIVE' }
CheckinRow ==
  [k \in {"user_id", "church_id", "visibility", "status"} |->
     IF k = "status" THEN "ACTIVE" ELSE "value of " \o k]

\* The rows after an accepted update ... .eq('status', 'ACTIVE') with this
\* body, after an accepted update of the latest row by id, and after an
\* accepted insert.
ArchiveActive(rows, body) ==
  [i \in DOMAIN rows |->
     IF rows[i] = "ACTIVE" /\ In("status", body) THEN body["status"] ELSE rows[i]]

ArchiveLatest(rows, body) ==
  [i \in DOMAIN rows |->
     IF i = Len(rows) /\ In("status", body) THEN body["status"] ELSE rows[i]]

Inserted(rows, body) == Append(rows, IF In("status", body) THEN body["status"] ELSE "none")

\* The operation writes the rows of table t and goes on to its next await,
\* or ends with what it returns or throws.
CheckinStep(next, out, entries, t, rows) ==
  /\ pc' = next
  /\ outcome' = out
  /\ log' = log \o entries
  /\ checkins' = [checkins EXCEPT ![t] = rows]
  /\ UNCHANGED <<op, source, store, eventGen, page, likes, shimVars, memberVars>>

ArchiveTable == IF pc = "archiveLegacy" THEN "mass_checkins" ELSE "mass_checkins_v2"
InsertTable == IF pc = "legacy" THEN "mass_checkins" ELSE "mass_checkins_v2"

\* setCheckInNow of the list page.
List_setCheckInNow ==
  /\ op = "List_setCheckInNow" /\ pc # "done"
  /\ LET t == ArchiveTable
         archiveResult == Call_List_archiveByStatus(store.update[t], t, ArchivePayload, 0)
         archived == IF archiveResult.wrote
                       THEN ArchiveActive(checkins[t], archiveResult.body)
                       ELSE checkins[t]
         archiveMessage == archiveResult.result.error.message
         statusMissing ==
           /\ Page_isMissingColumnError(archiveMessage)
           /\ \/ extractMissingColumnName(archiveMessage) = "status"
              \/ includes(toLowerCase(archiveMessage), <<"status">>)
         fallbackArchive ==
           Call_List_archiveLatestRow(store.update[t], t, archiveResult.body, 0)
         after == IF pc = "archiveLegacy" THEN "archiveV2" ELSE "rpc"
         rpcResult == RpcAnswer(store.rpc, "radar_v2_set_checkin")
         i == InsertTable
         insert == Call_List_checkinInsert(store.update[i], store.insert[i], i, CheckinRow, 0)
         legacyInsert == Call_List_checkinInsert(store.update["mass_checkins"],
                           store.insert["mass_checkins"], "mass_checkins", CheckinRow, 0)
     IN
     CASE pc \in {"archiveLegacy", "archiveV2"} ->
            IF archiveResult.result.error = NoError \/ ~statusMissing \/ archived = <<>>
              THEN CheckinStep(after, outcome, <<Called("update", t, archiveResult)>>,
                               t, archived)
              ELSE CheckinStep(after, outcome,
                     <<Called("update", t, archiveResult),
                       Sent("read", t, Accept("row")),
                       Called("update", t, fallbackArchive)>>,
                     t, IF fallbackArchive.wrote
                          THEN ArchiveLatest(archived, fallbackArchive.body)
                          ELSE archived)
       [] pc = "rpc" ->
            IF store.rpc = "skipped"
              THEN CheckinStep("legacy", outcome, <<>>, "mass_checkins",
                               checkins["mass_checkins"])
            ELSE IF rpcResult.error = NoError
              THEN \E archives \in BOOLEAN :
                     CheckinStep("done", Returned("void"),
                       <<Sent("rpc", "radar_v2_set_checkin", rpcResult)>>,
                       "mass_checkins_v2",
                       Inserted(IF archives
                                  THEN ArchiveActive(checkins["mass_checkins_v2"],
                                                     ArchivePayload)
                                  ELSE checkins["mass_checkins_v2"],
                                CheckinRow))
            ELSE CheckinStep("legacy", outcome,
                   <<Sent("rpc", "radar_v2_set_checkin", rpcResult)>>,
                   "mass_checkins", checkins["mass_checkins"])
       [] OTHER ->
            IF insert.result.error = NoError
              THEN CheckinStep("done", Returned("void"), <<Called("insert", i, insert)>>,
                               i, IF insert.wrote THEN Inserted(checkins[i], insert.body)
                                  ELSE checkins[i])
            ELSE IF pc = "legacy"
              THEN CheckinStep("v2", outcome, <<Called("insert", i, insert)>>, i, checkins[i])
            ELSE CheckinStep("done", Threw(legacyInsert.result.error),
                             <<Called("insert", i, insert)>>, i, checkins[i])

\* main of the radar-flow script, from the cleanup of the check-ins to the
\* creation of the check-in.
Flow_checkIn ==
  /\ op = "Flow_checkIn" /\ pc # "done"
  /\ LET t == ArchiveTable
         archive == Call_Flow_archiveCheckInsByUser(store.update[t], t, ArchivePayload, 0)
         i == InsertTable
         insert == Call_Flow_checkinInsert(store.update[i], store.insert[i], i, CheckinRow, 0)
     IN
     CASE pc \in {"archiveLegacy", "archiveV2"} ->
            IF ~archive.result.ok
              THEN CheckinStep("done",
                     Failed(<<"check-in", "cleanup">>), <<Called("update", t, archive)>>,
                     t, checkins[t])
              ELSE CheckinStep(IF pc = "archiveLegacy" THEN "archiveV2" ELSE "legacy",
                     outcome, <<Called("update", t, archive)>>, t,
                     IF archive.wrote THEN ArchiveActive(checkins[t], archive.body)
                     ELSE checkins[t])
       [] OTHER ->
            IF ScriptCreated(insert)
              THEN CheckinStep("done", Returned("checkInId"), <<Called("insert", i, insert)>>,
                               i, Inserted(checkins[i], insert.body))
            ELSE IF pc = "legacy"
              THEN CheckinStep("v2", outcome, <<Called("insert", i, insert)>>, i, checkins[i])
            ELSE CheckinStep("done", Failed(<<"check-in", "create">>),
                             <<Called("insert", i, insert)>>, i, checkins[i])

\* The rows the user has before the check-in: at most one of them ACTIVE.
RowsBefore ==
  {r \in [CheckinTables -> {<<>>, <<"ARCHIVED">>, <<"ACTIVE">>, <<"ARCHIVED", "ACTIVE">>}] :
     ~(\E i \in DOMAIN r["mass_checkins"] : r["mass_checkins"][i] = "ACTIVE")
     \/ ~(\E i \in DOMAIN r["mass_checkins_v2"] : r["mass_checkins_v2"][i] = "ACTIVE")}

\* A table without a status column holds rows without a status.
StoredIn(update, rows) ==
  [t \in CheckinTables |->
     IF update[t] = "noStatus" THEN [i \in DOMAIN rows[t] |-> "none"]
     ELSE IF update[t] = "missingPg" THEN <<>>
     ELSE rows[t]]

CheckinStores(o) ==
  {[update |-> u, insert |-> i, rpc |-> r, rows |-> StoredIn(u, b)] :
     u \in [CheckinTables -> UpdateStates], i \in [CheckinTables -> {"ok", "denied"}],
     r \in IF o = "Flow_checkIn" THEN {"skipped"}
           ELSE {"skipped", "created", "absentCache", "quotaFull"},
     b \in RowsBefore}

CheckInOps == {"List_setCheckInNow", "Flow_checkIn"}

InitCheckins ==
  /\ NoCall
  /\ NoMembers
  /\ page = <<>>
  /\ likes = <<>>
  /\ op \in CheckInOps
  /\ pc = "archiveLegacy"
  /\ source = "none"
  /\ store \in CheckinStores(op)
  /\ checkins = store.rows
  /\ log = <<>>
  /\ eventGen = "none"
  /\ outcome = <<>>

NextCheckins ==
  \/ List_setCheckInNow
  \/ Flow_checkIn

SpecCheckins == InitCheckins /\ [][NextCheckins]_vars

(***************************************************************************)
(* The host's decision on a pending participant, updateParticipantDecision *)
(* of the detail page, as an operation: the read of the event, the host    *)
(* check, the update over the participant tables, the chat membership of   *)
(* an approved participant and the notification.  The store holds what the *)
(* read of the event finds and who created the event.                      *)
(***************************************************************************)
\* The answer to the read of the event with its chat room, and to the read
\* without chat_room_id that follows a missing column.  The data of a row is
\* its creator: the acting user ("actor") or somebody else ("other").
Det_EventRead(event, t) ==
  CASE event.answer = "none" -> Accept(NoData)
    [] event.answer = "denied" -> Reject("permission", NoColumn, MsgPermissionDenied(t))
    [] event.answer = "timeout" -> Reject("other", NoColumn, MsgTimeout)
    [] event.answer = "missingCache" ->
         Reject("missing_relation", NoColumn, MsgSchemaCacheTable(t))
    [] event.answer = "noChatColumn" ->
         Reject("missing_column", "chat_room_id", MsgColumnMissing("chat_room_id"))
    [] OTHER -> Accept(event.creator)

Det_EventReadAgain(event, t) ==
  IF event.answer = "noChatColumn" THEN Accept(event.creator) ELSE Det_EventRead(event, t)

\* Variant: any event row read passes the host check.
ActorIsCreator_anyRow(eventRow) == eventRow # NoData

\* eventRow?.id && eventRow.creator_id?.toString() === actorId
ActorIsCreator(eventRow) == eventRow # NoData /\ eventRow = "actor"

MsgHostOnly == <<"Hanya", "host", "yang", "boleh", "memproses", "peserta", "pending.">>

\* The chat membership written for an approved participant.
ChatWrites ==
  IF source = "v2"
    THEN <<[kind |-> "read", target |-> "radar_chat_groups_v2", outcome |-> "accepted"]>>
         \o IF store.chat = "" THEN <<>>
            ELSE <<[kind |-> "insert", target |-> "radar_chat_members_v2",
                    outcome |-> "accepted"]>>
    ELSE IF store.chat = "" \/ store.event.answer = "noChatColumn" THEN <<>>
         ELSE <<[kind |-> "insert", target |-> "chat_members", outcome |-> "accepted"]>>

\* updateParticipantDecision of the detail page.
Det_updateParticipantDecision ==
  /\ op = "Det_updateParticipantDecision" /\ pc # "done"
  /\ UNCHANGED <<shimVars, eventGen>>
  /\ LET eventTable == EventTable(source)
         withChatRoom == Det_EventRead(store.event, eventTable)
         again == /\ withChatRoom.error # NoError
                  /\ Page_isMissingColumnError(withChatRoom.error.message)
         final == IF again THEN Det_EventReadAgain(store.event, eventTable) ELSE withChatRoom
         reads == IF again THEN <<Sent("read", eventTable, withChatRoom),
                                  Sent("read", eventTable, final)>>
                  ELSE <<Sent("read", eventTable, withChatRoom)>>
         eventRow == IF final.error = NoError THEN final.data ELSE NoData
         left == Call_Det_updateWithColumnFallback(
                   store.tables, LoopTable, DecisionPayload(store.approve), 0)
         lastError == left.result.error.message
         notify == Call_Det_insertWithColumnFallback(
                     store.tables, "notifications", NotificationRow, 0)
     IN
     CASE pc = "event" ->
            IF final.error # NoError /\ ~Page_isPermissionError(final.error.message)
              THEN End(Threw(final.error), reads)
            ELSE IF ~ActorIsCreator(eventRow) THEN End(ThrewText(MsgHostOnly), reads)
            ELSE Goto("primary", reads)
       [] pc \in {"primary", "secondary"} ->
            IF left.result.error = NoError
              THEN Goto(IF store.approve THEN "chat" ELSE "notify",
                        <<Called("update", LoopTable, left)>>)
            ELSE IF \/ pc = "secondary"
                    \/ /\ ~Page_isMissingColumnError(lastError)
                       /\ ~Page_isMissingRelationError(lastError)
                       /\ ~Page_isPermissionError(lastError)
              THEN End(Threw(left.result.error), <<Called("update", LoopTable, left)>>)
            ELSE Goto("secondary", <<Called("update", LoopTable, left)>>)
       [] pc = "chat" -> Goto("notify", ChatWrites)
       [] OTHER -> End(Returned("void"), <<Called("insert", "notifications", notify)>>)

\* The events the decision is taken on, and the stores.
DecisionEvents ==
  [answer : {"row", "none", "denied", "timeout", "missingCache", "noChatColumn"},
   creator : {"actor", "other"}]

DecisionStores ==
  {[event |-> e, approve |-> a, chat |-> c,
    tables |-> Tables("ok", "ok", p, q, "ok", n)] :
     e \in DecisionEvents, a \in BOOLEAN, c \in {"", "chat"},
     p \in LeaveTableStates, q \in LeaveTableStates, n \in {"ok", "denied"}}

InitDecision ==
  /\ NoCall
  /\ NoMembers
  /\ NoPage
  /\ op = "Det_updateParticipantDecision"
  /\ pc = "event"
  /\ source \in Generations
  /\ store \in DecisionStores
  /\ log = <<>>
  /\ eventGen = "none"
  /\ outcome = <<>>

NextDecision == Det_updateParticipantDecision

SpecDecision == InitDecision /\ [][NextDecision]_vars

(***************************************************************************)
(* The likes of one user on one comment.  likes.rows holds the ids of the  *)
(* rows of radar_comment_likes for (user, comment); the table has the      *)
(* unique constraint radar_comment_likes_user_comment_unique of            *)
(* db/radar_comments_hotfix.sql, so an insert that finds a row is answered *)
(* duplicate key.  toggleRadarCommentLike takes one step per await; the    *)
(* same user may run it from several tabs at once.                         *)
(***************************************************************************)
MaxToggles == 2
MaxLikes == 2

Toggles == 1..MaxToggles

\* No like: existingLike.data is null.
NoLike == 0

\* A toggle that is not running, and what its last call returned.
Idle(returned) == [pc |-> "none", existingLike |-> NoLike, returned |-> returned]

\* handleToggleCommentLike: the user clicks the like button of the comment.
Det_handleToggleCommentLike(c) ==
  /\ likes # <<>>
  /\ likes.calls[c].pc = "none"
  /\ likes' = [likes EXCEPT !.calls[c] = [pc |-> "existingLike", existingLike |-> NoLike,
                                          returned |-> "none"]]
  /\ UNCHANGED <<shimVars, opVars, memberVars, page, checkins>>

\* liked: !Boolean(existingLike.data?.id)
Liked(existingLike, rows) == existingLike = NoLike

\* toggleRadarCommentLike of the detail page: the read of the existing like,
\* the delete by id or the insert, and the count.
Det_toggleRadarCommentLike(c) ==
  /\ likes # <<>>
  /\ LET my == likes.calls[c]
         found == IF likes.rows = {} THEN NoLike ELSE CHOOSE id \in likes.rows : TRUE
     IN
     CASE my.pc = "existingLike" ->
            \E answer \in {"ok", "error"} :
              likes' = IF answer = "error"
                         THEN [likes EXCEPT !.calls[c] = Idle("thrown")]
                         ELSE [likes EXCEPT !.calls[c].pc = "write",
                                            !.calls[c].existingLike = found]
       [] my.pc = "write" ->
            IF my.existingLike # NoLike
              THEN \* delete().eq('id', existingLike.data.id)
                   likes' = [likes EXCEPT !.rows = likes.rows \ {my.existingLike},
                                          !.calls[c].pc = "countResult"]
            ELSE IF likes.rows # {}
              THEN \* duplicate key value violates unique constraint
                   likes' = [likes EXCEPT !.calls[c] = Idle("thrown")]
            ELSE /\ likes.made < MaxLikes
                 /\ likes' = [likes EXCEPT !.rows = {likes.made + 1},
                                           !.made = likes.made + 1,
                                           !.calls[c].pc = "countResult"]
       [] my.pc = "countResult" ->
            likes' = [likes EXCEPT !.calls[c] =
                        Idle(IF Liked(my.existingLike, likes.rows) THEN "liked" ELSE "unliked")]
       [] OTHER -> FALSE
  /\ UNCHANGED <<shimVars, opVars, memberVars, page, checkins>>

InitLikes ==
  /\ NoCall
  /\ NoOperation
  /\ NoMembers
  /\ page = <<>>
  /\ checkins = <<>>
  /\ likes = [rows |-> {}, made |-> 0, calls |-> [c \in Toggles |-> Idle("none")]]

NextLikes ==
  \/ \E c \in Toggles : Det_handleToggleCommentLike(c)
  \/ \E c \in Toggles : Det_toggleRadarCommentLike(c)

SpecLikes == InitLikes /\ [][NextLikes]_vars

(***************************************************************************)
(* Properties of the retry loops (specification Spec).                     *)
(***************************************************************************)
Finished == result # NoResult

\* The attempt ceiling written in each loop, and the failure it synthesizes.
CeilingOf(f) ==
  CASE f \in {"Flow_insertWithColumnFallback", "Flow_archiveCheckInsByUser",
              "Flow_checkOutById"} -> Flow_Ceiling
    [] f \in {"Inv_insertWithColumnFallback", "Inv_updateWithColumnFallback"} -> Inv_Ceiling
    [] f \in {"List_insertWithColumnFallback", "List_setCheckOutNow"} -> List_Ceiling
    [] f \in {"List_archiveByStatus", "List_archiveLatestRow"} -> List_ArchiveCeiling
    [] f \in {"Det_updateWithColumnFallback", "Det_insertWithColumnFallback"} -> Det_Ceiling
    [] OTHER -> 0

ExhaustedOf(f) ==
  CASE f \in {"Flow_insertWithColumnFallback", "Inv_insertWithColumnFallback"} ->
         Script_insertExhausted(table)
    [] f = "Flow_archiveCheckInsByUser" -> Flow_archiveExhausted(table)
    [] f = "Flow_checkOutById" -> Flow_checkOutExhausted(table)
    [] f = "Inv_updateWithColumnFallback" -> Inv_updateExhausted(table)
    [] f = "List_insertWithColumnFallback" -> List_insertExhausted(table)
    [] f = "List_setCheckOutNow" -> List_checkOutExhausted
    [] f = "Det_updateWithColumnFallback" -> Det_updateExhausted(table)
    [] f = "Det_insertWithColumnFallback" -> Det_insertExhausted(table)
    [] OTHER -> NoResult

\* The loops that count attempts and synthesize a failure after the last one.
CountedFns == InsertFns \union
  {"Flow_archiveCheckInsByUser", "Flow_checkOutById", "Inv_updateWithColumnFallback",
   "List_setCheckOutNow", "Det_updateWithColumnFallback"}

ScriptFns ==
  {"Flow_insertWithColumnFallback", "Flow_archiveCheckInsByUser", "Flow_checkOutById",
   "Inv_insertWithColumnFallback", "Inv_updateWithColumnFallback"}

\* P with the keys of S removed.
Without(P, S) == [k \in (DOMAIN P) \ S |-> P[k]]

\* A failure text made up by the client ("Gagal ...").
Synthesized(r) == r.error # NoError /\ includes(toLowerCase(r.error.message), <<"gagal">>)

\* C1: insertWithColumnFallback, every variant: when the store reports keys of
\* the payload as missing columns one at a time, fewer of them than the
\* attempt ceiling, and then accepts, the call returns success and the body of
\* the accepted insert is the payload without exactly the reported keys.
C1_AcceptedBodyIsPayloadMinusReported ==
  (/\ fn \in InsertFns
   /\ mock = "missingThenAccept"
   /\ Finished
   /\ Cardinality(reported) < CeilingOf(fn))
  => (Succeeded(result) /\ accepted = Without(payload, reported))

\* The most requests a loop can send: one per attempt; the archive-by-status
\* loop sends one before its first pass; the comment loop sends the insert
\* and one more for each of its two one-time fallbacks.
RequestCeiling(f) ==
  CASE f = "List_archiveByStatus" -> List_ArchiveCeiling + 1
    [] f = "Det_createRadarComment" -> 3
    [] OTHER -> CeilingOf(f)

\* The loop has no retry left: its counter is at the ceiling, or (comment
\* loop) both one-time fallbacks are spent and the insert failed again.
RetriesUsedUp ==
  IF fn = "Det_createRadarComment"
    THEN attempt = 2 /\ last.class # "accept"
    ELSE attempt = CeilingOf(fn)

\* C2 (as stated): every retry loop sends no more requests than its ceiling
\* and, when it has used up its retries, ends with a failure synthesized by
\* the client, never with success.
C2_EveryLoopEndsSynthesized ==
  /\ sent <= RequestCeiling(fn)
  /\ (Finished /\ RetriesUsedUp) => (Synthesized(result) /\ ~Succeeded(result))

\* C2 (amended): every loop stops, since each step sends one request and the
\* requests are bounded: by the written ceiling for the counted loops, and by
\* the number of columns of the payload plus one substitution plus one for
\* the others.  A counted loop whose counter reaches the ceiling ends with its
\* synthesized failure and not with success; the archive loops and the comment
\* loop synthesize nothing: when they stop on an error they leave the error
\* of the store.
C2_LoopsAreBounded ==
  /\ sent <= RequestCeiling(fn)
  /\ sent <= Cardinality(DOMAIN payload) + 2
  /\ ~Finished => (sent = attempt /\ sent < RequestCeiling(fn))
  /\ (Finished /\ fn \in CountedFns /\ attempt = CeilingOf(fn))
       => (result = ExhaustedOf(fn) /\ Synthesized(result) /\ ~Succeeded(result))
  /\ (Finished /\ fn \notin CountedFns)
       => (/\ attempt < CeilingOf(fn) \/ fn = "Det_createRadarComment"
           /\ result.error = last.error
           /\ ~Synthesized(result))

\* A counted loop that ran out of attempts.
C2_Exhausted ==
  /\ fn = "List_insertWithColumnFallback"
  /\ attempt = List_Ceiling
  /\ sent = List_Ceiling
  /\ Finished

\* C3 (as stated): against a store that answers every insert with a
\* missing-column error, insertWithColumnFallback fails after exactly as many
\* requests as its ceiling.
C3_FailsExactlyAtCeiling ==
  (fn \in InsertFns /\ mock = "alwaysMissingColumn" /\ Finished)
    => (~Succeeded(result) /\ sent = CeilingOf(fn))

\* The error names no column of the working copy, or (scripts) is taken for a
\* missing relation before its column is looked at.
NotStrippable ==
  \/ ~In(last.column, working)
  \/ (fn \in ScriptFns /\ Script_isMissingRelationError(last.error))

\* C3 (amended): against such a store insertWithColumnFallback never
\* succeeds and sends at most as many requests as its ceiling.  It ends with
\* the synthesized failure after exactly that many requests when each of them
\* was answered by naming a column still in the working copy; it ends
\* earlier, with the error of the store, at the first answer that names a
\* column no longer (or never) in the working copy, e.g. at the second
\* request when the same column is named twice, and in the scripts at the
\* first answer that also matches the missing-relation pattern.
C3_FailsAtCeilingOrFirstUnstrippable ==
  (fn \in InsertFns /\ mock = "alwaysMissingColumn" /\ Finished)
    => /\ ~Succeeded(result)
       /\ sent <= CeilingOf(fn)
       /\ \/ attempt = CeilingOf(fn) /\ sent = attempt /\ result = ExhaustedOf(fn)
          \/ /\ attempt < CeilingOf(fn)
             /\ sent = attempt + 1
             /\ NotStrippable
             /\ result.error = last.error

\* The same column named twice: failure at the second request.
C3_SameColumnTwice ==
  /\ fn = "List_insertWithColumnFallback"
  /\ mock = "alwaysMissingColumn"
  /\ Finished
  /\ sent = 2
  /\ last.column \in DOMAIN payload
  /\ ~In(last.column, working)
  /\ ~Succeeded(result)

\* The shims that mark a result as missing.
MarkingFns ==
  {"Flow_insertWithColumnFallback", "Inv_insertWithColumnFallback",
   "Inv_updateWithColumnFallback"}

StatusPathFns ==
  {"Flow_archiveCheckInsByUser", "Flow_checkOutById", "Inv_updateWithColumnFallback",
   "List_setCheckOutNow"}

OnStatusPath == fn \in StatusPathFns /\ payload = ArchivePayload

\* C5: status-update path, status ARCHIVED, store rejecting the first update
\* with an enum or check-constraint violation and accepting the next: exactly
\* two updates are sent, the second is the first with status FINISHED, and
\* the call reports success.
C5_SubstitutesFinishedOnce ==
  (OnStatusPath /\ mock = "enumOnce" /\ Finished)
    => /\ sent = 2
       /\ statusSent = <<"ARCHIVED", "FINISHED">>
       /\ accepted = [firstBody EXCEPT !["status"] = "FINISHED"]
       /\ Succeeded(result)

\* C6 (as stated): against a store that rejects every update with an enum or
\* check-constraint violation, FINISHED is substituted at most once, ARCHIVED
\* is not sent after it, and failure is reported only at the attempt ceiling.
C6_FailsOnlyAtCeiling ==
  (OnStatusPath /\ mock = "alwaysEnum")
    => /\ \A i, j \in 1..Len(statusSent) :
            (i < j /\ statusSent[i] = "FINISHED") => statusSent[j] # "ARCHIVED"
       /\ Cardinality({i \in 1..Len(statusSent) : statusSent[i] = "FINISHED"}) <= 1
       /\ Finished => (~Succeeded(result) /\ attempt = CeilingOf(fn))

\* C6 (amended): against such a store FINISHED is substituted at most once
\* and ARCHIVED is not sent after it; the call never succeeds and fails long
\* before the ceiling, with the error of the store (setCheckOutNow throws
\* it): at the second update, the rejected FINISHED, or already at the first
\* when setCheckOutNow gets a rejection whose text does not contain
\* 'archived' and so substitutes nothing.
C6_FailsAtSecondRejection ==
  (OnStatusPath /\ mock = "alwaysEnum")
    => /\ \A i, j \in 1..Len(statusSent) :
            (i < j /\ statusSent[i] = "FINISHED") => statusSent[j] # "ARCHIVED"
       /\ Cardinality({i \in 1..Len(statusSent) : statusSent[i] = "FINISHED"}) <= 1
       /\ Finished
            => /\ ~Succeeded(result)
               /\ attempt < CeilingOf(fn)
               /\ result.error = last.error
               /\ \/ sent = 2 /\ statusSent = <<"ARCHIVED", "FINISHED">>
                  \/ /\ sent = 1
                     /\ fn = "List_setCheckOutNow"
                     /\ ~includes(toLowerCase(last.error.message), <<"archived">>)

\* Both values rejected: the call failed at the second update.
C6_BothRejected ==
  /\ OnStatusPath
  /\ mock = "alwaysEnum"
  /\ Finished
  /\ statusSent = <<"ARCHIVED", "FINISHED">>
  /\ ~Succeeded(result)

\* The insert and update shims of the scripts and of the pages.
ShimFns == InsertFns \union
  {"Inv_updateWithColumnFallback", "Det_updateWithColumnFallback"}

DependentTables == ParticipantTables \union {"radar_invites", "radar_invites_v2"}

GenOf(t) == IF t \in {"radar_events_v2", "radar_participants_v2", "radar_invites_v2"}
              THEN "v2" ELSE "legacy"

\* The requests of the log that write directly into a table of ts.
DirectWrites(ts) ==
  {i \in 1..Len(log) : log[i].kind \in {"insert", "update"} /\ log[i].target \in ts}

\* The insert call on the primary participant table was answered duplicate.
PrimaryDuplicate ==
  \E i \in 1..Len(log) :
    /\ log[i].kind = "insert"
    /\ log[i].target = ParticipantTable(source)
    /\ log[i].outcome = "duplicate"

\* C7: the list page's insertWithColumnFallback turns a duplicate-key error
\* into a result with no error and duplicate = true, at once; so the direct
\* path of joinRadarEvent, when the insert into the participant table of the
\* event's generation is answered duplicate, returns the status and sends
\* nothing to the participant table of the other generation.
C7_DuplicateJoinSucceeds ==
  /\ \A n \in 1..MaxKeys :
       LET out == List_insertWithColumnFallback_body(
                    InvitePayload(n), Reject("duplicate", NoColumn, MsgDuplicate))
       IN  out.done /\ out.result.error = NoError /\ out.result.duplicate
  /\ (op = "List_joinRadarEvent" /\ PrimaryDuplicate)
       => /\ pc = "done"
          /\ outcome = Returned(fallbackMembershipStatus(store.policy))
          /\ DirectWrites({ParticipantTable(OtherGen(source))}) = {}
          /\ Cardinality(DirectWrites(ParticipantTables)) = 1

\* A join of the list page that fell back and met the existing row.
C7_JoinedAgain ==
  /\ op = "List_joinRadarEvent"
  /\ PrimaryDuplicate
  /\ outcome = Returned("JOINED")
  /\ log[1].kind = "rpc"
  /\ log[1].outcome = "function_missing"

\* C8: in a create operation every dependent row the store accepted, host
\* participant or invite, is in a table of the generation in which the event
\* was created.
C8_DependentWritesFollowEvent ==
  (op \in CreateOps)
    => \A i \in DirectWrites(DependentTables) :
         log[i].outcome = "accepted" => GenOf(log[i].target) = eventGen

\* C10: the join and leave operations call the procedure first; they write
\* a participant table directly only when the procedure is absent, closed to
\* the caller, or answered not-authenticated or ambiguous-column; after any
\* other error of the procedure they end by raising, with no direct write.
C10_DirectWriteOnlyWithoutProcedure ==
  (op \in JoinOps \union {"Det_leaveRadarEvent"} /\ Len(log) > 0)
    => /\ log[1].kind = "rpc"
       /\ DirectWrites(ParticipantTables) # {}
            => log[1].outcome \in {"function_missing", "permission", "ambiguous"}
       /\ log[1].outcome = "accepted" => DirectWrites(ParticipantTables) = {}
       /\ log[1].outcome = "other"
            => (pc = "done" /\ outcome.kind = "thrown"
                /\ DirectWrites(ParticipantTables) = {})

(***************************************************************************)
(* Properties of the membership (specification SpecMembers).               *)
(***************************************************************************)
Decisions == {"approve", "reject"}

\* The rows of the user of the last operation, as they are now.
Now(t) == members[t][did.user]

\* C11: a host decision changes only rows found PENDING, to JOINED on
\* approve and to REJECTED on reject; a row found JOINED, REJECTED or LEFT
\* (or absent) is as it was, in either participant table.
C11_DecisionChangesOnlyPending ==
  (did.op \in Decisions)
    => \A t \in ParticipantTables :
         /\ did.was[t] # "PENDING" => Now(t) = did.was[t]
         /\ Now(t) # did.was[t]
              => Now(t) = IF did.op = "approve" THEN "JOINED" ELSE "REJECTED"

\* A pending row held by the table of the other generation was rejected,
\* while the user's row in the first table stayed as it was.
C11_PendingRejected ==
  /\ did.op = "reject"
  /\ did.was[SecondaryTable] = "PENDING"
  /\ Now(SecondaryTable) = "REJECTED"
  /\ did.reported = "void"

\* C12: REJECTED and LEFT are terminal: a row found REJECTED or LEFT by a
\* join (procedure or direct insert), a host decision or a leave has the
\* same status afterwards.
C12_RejectedAndLeftAreTerminal ==
  \A t \in ParticipantTables :
    did.was[t] \in {"REJECTED", "LEFT"} => Now(t) = did.was[t]

\* The JOINED participants of the event, as the procedure counts them.
JoinedCount == Cardinality({u \in Users : members["radar_participants"][u] = "JOINED"})

\* C13: where the joins go through join_radar_event, an event with a quota
\* never has more JOINED participants than the quota, however the calls of
\* different users interleave.  (The event is one of open join: with
\* approval the procedure stores PENDING, and JOINED comes from the host's
\* decision.)
C13_QuotaIsKept ==
  (radar.procedure = "present" /\ radar.max > 0 /\ ~radar.approval)
    => JoinedCount <= radar.max

\* The operations that join.
Joins == {"join_radar_event", "List_joinRadarEvent", "Det_joinRadarEvent",
          "Inv_joinRadarEventFallback"}

\* The last operation was a join by a user who had no membership row.
JoinedAnew == did.op \in Joins /\ \A t \in ParticipantTables : did.was[t] = "NONE"

\* C16: where the event requires the host's approval, a join by a user with
\* no membership row, through join_radar_event or through the direct insert
\* of a page or of the script, stores the row as PENDING and reports
\* PENDING, never JOINED.
C16_ApprovalJoinIsPending ==
  (radar.approval /\ JoinedAnew)
    => /\ \A t \in ParticipantTables : Now(t) \in {"NONE", "PENDING"}
       /\ did.reported \in {"PENDING", "thrown", "Kuota penuh"}

(***************************************************************************)
(* Further properties of the operations (specification SpecOps).           *)
(***************************************************************************)
\* C14: once createRadarEvent, or the create step of the radar flow script,
\* has reported success, the store has accepted the creator's HOST row in
\* the participant table of the generation that holds the event.
C14_HostRowAfterCreate ==
  (op \in {"List_createRadarEvent", "Flow_main"} /\ pc = "done" /\ outcome.kind = "returned")
    => \E i \in DirectWrites({ParticipantTable(eventGen)}) : log[i].outcome = "accepted"

(***************************************************************************)
(* Properties of the invites (specification SpecInvites).                  *)
(***************************************************************************)
\* The handler runs for a radar stored as private.
PrivateJoin == op \in JoinHandlers /\ store.visibility \in {"PRIVATE", "PERSONAL"}

\* The invite rows of the radar and the user that the lookups of the
\* handler come to see.
RowsSeen ==
  LET latest == IF store.latest \in InviteStatuses THEN {store.latest}
                ELSE IF store.latest = "noSource" THEN {"PENDING"}
                ELSE {}
  IN  IF op = "Det_handleJoin" THEN latest
      ELSE latest \union ({store.cached, store.incoming} \ {"none"})

ActiveStatuses == {"PENDING", "INVITED", "REQUESTED", "ACCEPTED", "JOINED", "APPROVED"}

JoinIssued == \E i \in DOMAIN log : log[i].kind = "join"

MemberWritten == \E i \in DOMAIN log : log[i].kind = "join" /\ log[i].outcome = "accepted"

\* The status as the page reads it: upper-cased; trimmed on the detail
\* page; PENDING for a row without a status on the list page.
ReadAs(s) ==
  IF op = "Det_handleJoin" THEN UpperText(TrimText(s))
  ELSE IF s = NoStatus THEN "PENDING"
  ELSE UpperText(s)

ActiveAsRead == \E s \in RowsSeen : ReadAs(s) \in ActiveStatuses

NotificationRefused ==
  /\ store.tables["notifications"] = "denied"
  /\ \E i \in DOMAIN log :
       /\ log[i].kind = "insert" /\ log[i].target = "notifications"
       /\ log[i].outcome = "failed"

\* C20: a refusal of the notification insert by row-level security does not
\* fail the operation around it: createPersonalRadarInvite, sendRadarInvite
\* and respondToRadarInvite return without throwing once the invite or the
\* response has been written.
C20_NotificationRefusalIsTolerated ==
  (op \in NotifyingOps /\ pc = "done" /\ NotificationRefused) => outcome.kind = "returned"

(***************************************************************************)
(* Further properties of the retry loops (specification Spec).             *)
(***************************************************************************)
CheckOutFns == {"List_setCheckOutNow", "Flow_checkOutById"}

\* C18: once setCheckOutNow, or checkOutById of the radar flow script, has
\* completed without error, the update the store accepted for the targeted
\* check-in row carried the status ARCHIVED or FINISHED, so the row is no
\* longer ACTIVE.
C18_CheckOutEndsActiveStatus ==
  (fn \in CheckOutFns /\ Finished /\ Succeeded(result))
    => StatusOf(accepted) \in {"ARCHIVED", "FINISHED"}

(***************************************************************************)
(* Properties of the deep-link intents (specification SpecPage).           *)
(***************************************************************************)
\* C17: an intent of the query (openCreate=1, openCheckin=1) opens its
\* dialog at most once while the page is mounted; once it is handled, or the
\* dialog is closed, the intent does not open the dialog again.
C17_IntentOpensAtMostOnce ==
  /\ page.createOpened <= 1
  /\ page.checkinOpened <= 1

\* Both intents have opened their dialogs, the user has closed both, and the
\* query still carries both intents.
C17_OpenedOnceAndClosed ==
  /\ page.createOpened = 1 /\ page.checkinOpened = 1
  /\ ~page.isCreateDialogOpen /\ ~page.isCheckInDialogOpen
  /\ page.openCreateFromQuery /\ page.canCreateRadar
  /\ page.openCheckinFromQuery /\ ~page.activeCheckIn

(***************************************************************************)
(* Properties of the check-ins (specification SpecCheckins).               *)
(***************************************************************************)
ActiveIn(rows) == {i \in DOMAIN rows : rows[i] = "ACTIVE"}

\* C19: once a check-in has completed without error (setCheckInNow of the
\* list page; the cleanup and the creation of the radar flow script), the
\* user has at most one ACTIVE row over mass_checkins and mass_checkins_v2,
\* and every row that was ACTIVE before is ARCHIVED or FINISHED.
C19_AtMostOneActiveCheckIn ==
  (op \in CheckInOps /\ pc = "done" /\ outcome.kind = "returned")
    => /\ Cardinality(ActiveIn(checkins["mass_checkins"]))
            + Cardinality(ActiveIn(checkins["mass_checkins_v2"])) <= 1
       /\ \A t \in CheckinTables : \A i \in ActiveIn(store.rows[t]) :
            checkins[t][i] \in {"ARCHIVED", "FINISHED"}

(***************************************************************************)
(* Properties of the classification order (specification Spec).            *)
(***************************************************************************)
\* C21: in every insertWithColumnFallback, a request answered with an error
\* reporting that column c does not exist, with c a key of the working copy,
\* is handled by removing c and going round again (or, at the last attempt,
\* by the synthesized failure), whichever other pattern the text matches; the
\* call does not end on that error as missing relation, permission or generic.
C21_MissingColumnIsAlwaysStripped ==
  [][(/\ fn \in InsertFns
      /\ sent' = sent + 1
      /\ last'.class = "missing_column"
      /\ In(last'.column, working))
       => /\ working' = Delete(working, last'.column)
          /\ result' \in {NoResult, ExhaustedOf(fn)}]_vars

(***************************************************************************)
(* Further properties of the join (specification SpecOps).                 *)
(***************************************************************************)
PageJoins == {"List_joinRadarEvent", "Det_joinRadarEvent"}

\* C22: when the join procedure (join_radar_event or radar_v2_join_event)
\* fails with an ambiguous-column-reference error, joinRadarEvent of the list
\* page and of the detail page does not throw it: it goes on to the direct
\* path, the read of the join policy and the participant inserts.
C22_AmbiguousJoinFallsBack ==
  (op \in PageJoins /\ store.rpc = "ambiguous" /\ pc # "rpc")
    => /\ pc = "policy" \/ Len(log) >= 2
       /\ pc = "done" => outcome # Threw(MsgAmbiguous("radar_id"))

(***************************************************************************)
(* Properties of join_radar_event (specification SpecMembers).             *)
(***************************************************************************)
\* The call of join_radar_event by user u returns in this step.
JoinReturns(u) == call[u] = "counted" /\ call'[u] = "idle"

\* C23: the status join_radar_event returns is the status of the row of
\* (radar, user) in radar_participants when the call returns: JOINED exactly
\* when the row is JOINED, PENDING exactly when it is PENDING, whether the
\* event requires approval or not and whether it has a chat room or not.
C23_ReturnedStatusIsStoredStatus ==
  [][\A u \in Users :
       JoinReturns(u) =>
         /\ did'.op = "join_radar_event" /\ did'.user = u
         /\ did'.reported = members'["radar_participants"][u]]_vars

RP == "radar_participants"

\* A step of the call of join_radar_event by user u: its count, its upsert,
\* or the exception its quota check raises.
JoinCallStep(u) ==
  \/ call'[u] # call[u]
  \/ /\ call[u] = "idle"
     /\ did' # did
     /\ did'.op = "join_radar_event" /\ did'.user = u
     /\ did'.reported = "Kuota penuh"

\* C24: join_radar_event is idempotent for members: a call by a user whose
\* row is JOINED (PENDING) returns JOINED (PENDING), raises nothing and
\* changes no row, whatever the number of JOINED rows, the full event
\* included.
C24_JoinIsIdempotentForMembers ==
  [][\A u \in Users :
       (JoinCallStep(u) /\ members[RP][u] \in {"JOINED", "PENDING"})
         => /\ members' = members
            /\ call'[u] = "counted" \/ did'.reported = members[RP][u]]_vars

(***************************************************************************)
(* Properties of the creation of the event (specification SpecOps).        *)
(***************************************************************************)
EventTables == {"radar_events", "radar_events_v2"}

\* The inserts of the log that created an event row.
EventRowsCreated == {i \in DirectWrites(EventTables) : log[i].outcome = "accepted"}

\* createRadarEvent and the create step of the two smoke scripts.
EventCreators == {"List_createRadarEvent", "Flow_main", "Inv_main"}

\* C25: one call of createRadarEvent, or of the create step of a smoke
\* script, creates at most one event row over radar_events and
\* radar_events_v2: the insert into radar_events_v2 is sent only after the
\* insert into radar_events, and only when that one created no row.
C25_AtMostOneEventRow ==
  (op \in EventCreators)
    => /\ Cardinality(EventRowsCreated) <= 1
       /\ \A i \in DirectWrites({"radar_events_v2"}) :
            \E j \in 1..(i - 1) :
              /\ log[j].kind = "insert"
              /\ log[j].target = "radar_events"
              /\ log[j].outcome # "accepted"

\* The legacy insert failed and the event was created in radar_events_v2.
C25_CreatedInV2AfterLegacyFailed ==
  /\ op = "List_createRadarEvent"
  /\ pc = "done"
  /\ outcome.kind = "returned"
  /\ eventGen = "v2"
  /\ log[1].target = "radar_events" /\ log[1].outcome = "failed"
  /\ log[2].target = "radar_events_v2" /\ log[2].outcome = "accepted"

(***************************************************************************)
(* Properties of leave (specification SpecMembers).                        *)
(***************************************************************************)
\* C26: once leaveRadarEvent has returned without throwing, the user has no
\* JOINED row for the radar in either participant table, also when the row
\* was held by the table of the other generation than the radar's.
C26_NoJoinedRowAfterLeave ==
  (did.op = "Det_leaveRadarEvent" /\ did.reported = "void")
    => \A t \in ParticipantTables : Now(t) # "JOINED"

(***************************************************************************)
(* Further properties of the invites (specification SpecInvites).          *)
(***************************************************************************)
\* The requests that answer an invite: the two procedures and the update.
InviteAnswers(i) ==
  \/ log[i].kind = "rpc"
       /\ log[i].target \in {"radar_v2_respond_invite", "respond_radar_invite"}
  \/ log[i].kind = "update" /\ log[i].target = "radar_invites"

\* C27: respondToRadarInvite calls joinRadarEvent only when accept is true
\* and the invite was changed to ACCEPTED earlier in the call, by the v2
\* procedure, the legacy procedure or the direct update; a decline, or a
\* response whose answer to the invite did not succeed, joins nothing.
C27_JoinOnlyAfterInviteAccepted ==
  (op = "List_respondToRadarInvite")
    => \A i \in 1..Len(log) :
         log[i].kind = "join"
           => /\ store.accept
              /\ \E j \in 1..(i - 1) : InviteAnswers(j) /\ log[j].outcome = "accepted"

(***************************************************************************)
(* Properties of the host's decision (specification SpecDecision).         *)
(***************************************************************************)
\* The acting user is the creator of the event and the read shows it.
HostIsRead == store.event.answer \in {"row", "noChatColumn"} /\ store.event.creator = "actor"

\* C28: updateParticipantDecision is host-only: when the acting user is not
\* the creator of the event, or the event row cannot be read, it throws
\* before any write: the log holds nothing but the reads of the event, so no
\* participant, chat-member or notification row is created or changed.
C28_DecisionIsHostOnly ==
  (op = "Det_updateParticipantDecision" /\ ~HostIsRead)
    => /\ \A i \in 1..Len(log) : log[i].kind = "read" /\ log[i].target = EventTable(source)
       /\ pc # "event" => (pc = "done" /\ outcome.kind = "thrown")

\* Another user's event was read and the decision refused.
C28_RefusedForNonHost ==
  /\ op = "Det_updateParticipantDecision"
  /\ store.event = [answer |-> "row", creator |-> "other"]
  /\ store.approve
  /\ pc = "done"
  /\ outcome = ThrewText(MsgHostOnly)
  /\ Len(log) = 1

(***************************************************************************)
(* Properties of the likes (specification SpecLikes).                      *)
(***************************************************************************)
\* The call c of toggleRadarCommentLike returns in this step.
ToggleReturns(c) ==
  /\ likes.calls[c].pc = "countResult"
  /\ likes'.calls[c].pc = "none"

\* C29: however the toggles of one user on one comment interleave,
\* radar_comment_likes holds at most one row of the pair, and a call that
\* completes without error returns liked = true exactly when a like row of
\* the user exists when it completes.
C29_ToggleReportsTheStoredLike ==
  /\ [](Cardinality(likes.rows) <= 1)
  /\ [][\A c \in Toggles :
          ToggleReturns(c)
            => (likes'.calls[c].returned = "liked" <=> likes'.rows # {})]_vars

(***************************************************************************)
(* Properties of the deep-link intents under fairness (specification       *)
(* SpecPageLive).                                                          *)
(***************************************************************************)
\* The page shows openCheckin=1, the user has no active check-in, and the effect
\* has not handled the intent yet.
IntentToOpenCheckIn ==
  /\ page.openCheckinFromQuery
  /\ ~page.activeCheckIn
  /\ ~CheckInIntentHandled

\* The intent is gone: the query was dropped or the user has checked in.
IntentWithdrawn == ~page.openCheckinFromQuery \/ page.activeCheckIn

\* C30: when the page is opened with openCheckin=1 and the user has no active
\* check-in, the check-in dialog is eventually opened by the intent (unless
\* the intent is withdrawn), also when a dependency of the effect changes
\* while the lookup of the church hierarchy is pending.
C30_CheckInDialogEventuallyOpens ==
  IntentToOpenCheckIn ~> (page.checkinOpened >= 1 \/ IntentWithdrawn)

\* The part that holds: the dialog is opened unless a dependency of the effect
\* changes while the lookup is pending.
C30_OpensUnlessCancelled ==
  IntentToOpenCheckIn
    ~> (page.checkinOpened >= 1 \/ IntentWithdrawn \/ page.prefill = "cancelled")

\* The lookup was cancelled by a change of a dependency: the intent is noted
\* as handled, nothing is pending, the dialog was never opened by the intent.
C30_IntentLostAfterCancel ==
  /\ CheckInIntentHandled
  /\ page.openCheckinFromQuery
  /\ ~page.activeCheckIn
  /\ page.prefill = "none"
  /\ page.checkinOpened = 0
  /\ ~page.isCheckInDialogOpen

====
